---- MODULE Spec2Model ----
(***************************************************************************)
(* A model of the comment continuation engine of ytce                      *)
(* (src/src/ytce/youtube/comments.py): the generator                       *)
(* YoutubeCommentDownloader.get_comments_from_url, its count estimator,    *)
(* the transport it calls and the consumer that pulls from it.             *)
(*                                                                         *)
(* JSON values are tagged records, so that values of different Python      *)
(* types can be compared.  A Python string that the code inspects          *)
(* character by character is a sequence of one-character strings; object   *)
(* keys, which the code only compares for equality, are TLA+ strings.      *)
(***************************************************************************)
EXTENDS Integers, Sequences, FiniteSets, TLC

(***************************************************************************)
(* Bounds of the model.                                                    *)
(***************************************************************************)
\* The transport hands out at most this many fresh continuation tokens in a run.
MaxFresh == 4
\* The caller's sort_by ranges over 0 .. MaxSortBy.
MaxSortBy == 2
\* The limit of the consumer's wrapper ranges over 1 .. MaxLimit.
MaxLimit == 2

\* The delays a caller may ask for, in tenths of a second: the default and a longer one.
Delays == {1, 2}

(***************************************************************************)
(* JSON values.                                                            *)
(***************************************************************************)
Null == [t |-> "null"]
Num(n) == [t |-> "num", n |-> n]
Str(s) == [t |-> "str", s |-> s]
Arr(el) == [t |-> "arr", el |-> el]
Obj(kv) == [t |-> "obj", kv |-> kv]
KV(k, v) == [k |-> k, v |-> v]
EmptyDict == Obj(<<>>)

\* v = x, then In(v): x is evaluated once, as by an assignment, and In is applied
\* to its value.
With(x, In(_)) == CHOOSE r \in {In(v) : v \in {x}} : TRUE

IsDict(x) == x.t = "obj"
IsStr(x) == x.t = "str"
IsNum(x) == x.t = "num"

\* Python truthiness of a JSON value.
Truthy(x) ==
  With(x, LAMBDA v :
    CASE v.t = "null" -> FALSE
      [] v.t = "num" -> v.n # 0
      [] v.t = "str" -> Len(v.s) > 0
      [] v.t = "arr" -> Len(v.el) > 0
      [] v.t = "obj" -> Len(v.kv) > 0)

\* key in d, for a dict d.
HasKey(d, key) ==
  With(d, LAMBDA v : IsDict(v) /\ \E i \in 1..Len(v.kv) : v.kv[i].k = key)

\* d[key], for a dict d that has the key.
Lookup(d, key) ==
  With(d, LAMBDA v : v.kv[CHOOSE i \in 1..Len(v.kv) : v.kv[i].k = key].v)

\* d.get(key, default), for a dict d.
Get(d, key, default) ==
  With(d, LAMBDA v : IF HasKey(v, key) THEN Lookup(v, key) ELSE default)

\* next(iterator, default) on an iterator given as the sequence it produces.
NextOr(seq, default) == With(seq, LAMBDA v : IF Len(v) > 0 THEN v[1] ELSE default)

\* The elements of a JSON array (a list), as a sequence; <<>> for anything else.
Elems(x) == With(x, LAMBDA v : IF v.t = "arr" THEN v.el ELSE <<>>)

\* reversed(list(s))
Reverse(s) == With(s, LAMBDA v : [i \in 1..Len(v) |-> v[Len(v) + 1 - i]])

(***************************************************************************)
(* StructuralSearch: every value found under a field named key, at any     *)
(* depth, in one document-order walk of the tree.                          *)
(***************************************************************************)
RECURSIVE search_dict(_, _), SearchFields(_, _, _), SearchElements(_, _, _)
search_dict(partial, search_key) ==
  With(partial, LAMBDA v :
    CASE v.t = "obj" -> SearchFields(v.kv, 1, search_key)
      [] v.t = "arr" -> SearchElements(v.el, 1, search_key)
      [] OTHER -> <<>>)

\* The fields of an object from the i-th on: a match, then what lies below it.
SearchFields(kv, i, search_key) ==
  IF i > Len(kv) THEN <<>>
  ELSE (IF kv[i].k = search_key THEN <<kv[i].v>> ELSE <<>>)
         \o search_dict(kv[i].v, search_key)
         \o SearchFields(kv, i + 1, search_key)

\* The elements of an array from the i-th on.
SearchElements(el, i, search_key) ==
  IF i > Len(el) THEN <<>>
  ELSE search_dict(el[i], search_key) \o SearchElements(el, i + 1, search_key)

(***************************************************************************)
(* Python strings, as sequences of one-character strings.                  *)
(***************************************************************************)
UpperChars == <<"A", "B", "C", "D", "E", "F", "G", "H", "I", "J", "K", "L", "M",
                "N", "O", "P", "Q", "R", "S", "T", "U", "V", "W", "X", "Y", "Z">>
LowerChars == <<"a", "b", "c", "d", "e", "f", "g", "h", "i", "j", "k", "l", "m",
                "n", "o", "p", "q", "r", "s", "t", "u", "v", "w", "x", "y", "z">>
Digits == <<"0", "1", "2", "3", "4", "5", "6", "7", "8", "9">>

IsDigit(c) == \E i \in 1..10 : Digits[i] = c
DigitVal(c) == (CHOOSE i \in 1..10 : Digits[i] = c) - 1
IsSpace(c) == c \in {" ", "\t", "\n", "\r"}

\* str.lower(), character by character.
LowerChar(c) ==
  IF \E i \in 1..26 : UpperChars[i] = c
  THEN LowerChars[CHOOSE i \in 1..26 : UpperChars[i] = c]
  ELSE c
Lower(s) == [i \in 1..Len(s) |-> LowerChar(s[i])]

\* s.startswith(p), s.endswith(p), p in s.
StartsWith(s, p) == Len(p) <= Len(s) /\ SubSeq(s, 1, Len(p)) = p
EndsWith(s, p) == Len(p) <= Len(s) /\ SubSeq(s, Len(s) - Len(p) + 1, Len(s)) = p
Contains(s, p) == \E i \in 0..(Len(s) - Len(p)) : SubSeq(s, i + 1, i + Len(p)) = p

\* The recursive operations on strings are functions: an argument is a value.
Strings == Seq(STRING)

\* s.replace(p, ""): every non-overlapping occurrence of p, left to right.
Remove[s \in Strings, p \in Strings] ==
  IF Len(s) < Len(p) \/ Len(s) = 0 THEN s
  ELSE IF StartsWith(s, p) THEN Remove[SubSeq(s, Len(p) + 1, Len(s)), p]
  ELSE <<Head(s)>> \o Remove[Tail(s), p]

\* s.strip(): leading and trailing whitespace removed.
LStrip[s \in Strings] == IF Len(s) > 0 /\ IsSpace(Head(s)) THEN LStrip[Tail(s)] ELSE s
RStrip[s \in Strings] ==
  IF Len(s) > 0 /\ IsSpace(s[Len(s)]) THEN RStrip[SubSeq(s, 1, Len(s) - 1)] ELSE s
Strip(s) == RStrip[LStrip[s]]

\* any(c.isdigit() for c in s)
AnyDigit(s) == \E i \in 1..Len(s) : IsDigit(s[i])
AllDigits(s) == \A i \in 1..Len(s) : IsDigit(s[i])

\* The value of a string of digits.
DigitsVal[s \in Strings] ==
  IF Len(s) = 0 THEN 0
  ELSE 10 * DigitsVal[SubSeq(s, 1, Len(s) - 1)] + DigitVal(s[Len(s)])

Pow10[n \in Nat] == IF n = 0 THEN 1 ELSE 10 * Pow10[n - 1]

\* re.findall(r'\d+', s): the maximal runs of digits of s, left to right.
DigitRunFrom[s \in Strings] ==
  IF Len(s) > 0 /\ IsDigit(Head(s)) THEN <<Head(s)>> \o DigitRunFrom[Tail(s)] ELSE <<>>
FindAllDigitRuns[s \in Strings] ==
  IF Len(s) = 0 THEN <<>>
  ELSE IF IsDigit(Head(s))
       THEN <<DigitRunFrom[s]>>
              \o FindAllDigitRuns[SubSeq(s, Len(DigitRunFrom[s]) + 1, Len(s))]
       ELSE FindAllDigitRuns[Tail(s)]

(***************************************************************************)
(* Python floats: IEEE 754 binary64, round to nearest, ties to even.  A    *)
(* natural number of any size is the sequence of its digits to the base    *)
(* 2^15, the least significant first and the last one not 0; a finite      *)
(* float is [neg, mant, exp], its value being mant * 2^exp, with a mant of *)
(* at most 53 bits (or 2^53).                                              *)
(***************************************************************************)
Base == 32768
Pow2[n \in Nat] == IF n = 0 THEN 1 ELSE 2 * Pow2[n - 1]

\* a without the zeros above its most significant digit.
Norm(digits) ==
  With(digits, LAMBDA a :
    With({i \in 1..Len(a) : a[i] # 0}, LAMBDA nz :
      IF nz = {} THEN <<>> ELSE SubSeq(a, 1, CHOOSE i \in nz : \A j \in nz : j <= i)))

\* An int n, 0 <= n < 2^31.
BigOf(n) == Norm(<<n % Base, (n \div Base) % Base, n \div (Base * Base)>>)

\* The int that a stands for, when it is below 2^31.
NatOf(digits) ==
  With(digits, LAMBDA a :
  (IF Len(a) >= 1 THEN a[1] ELSE 0)
    + (IF Len(a) >= 2 THEN a[2] * Base ELSE 0)
    + (IF Len(a) >= 3 THEN a[3] * Base * Base ELSE 0))

\* a times k, for 0 <= k < 2^15.
MulSmall(digits, k) ==
  With(digits, LAMBDA a :
    LET n == Len(a)
        carry[i \in 0..n] == IF i = 0 THEN 0 ELSE (a[i] * k + carry[i - 1]) \div Base
    IN Norm([i \in 1..(n + 1) |-> IF i <= n THEN (a[i] * k + carry[i - 1]) % Base
                                  ELSE carry[n]]))

\* a plus b.
AddBig(x, y) ==
  With(x, LAMBDA a : With(y, LAMBDA b :
    LET n == IF Len(a) > Len(b) THEN Len(a) ELSE Len(b)
        A(i) == IF i <= Len(a) THEN a[i] ELSE 0
        B(i) == IF i <= Len(b) THEN b[i] ELSE 0
        carry[i \in 0..n] == IF i = 0 THEN 0 ELSE (A(i) + B(i) + carry[i - 1]) \div Base
    IN Norm([i \in 1..(n + 1) |-> IF i <= n THEN (A(i) + B(i) + carry[i - 1]) % Base
                                  ELSE carry[n]])))

\* a times Base^d.
ShiftDigits(digits, d) ==
  With(digits, LAMBDA a : IF a = <<>> THEN a ELSE [i \in 1..d |-> 0] \o a)

\* a times k, for 0 <= k < 2^31.
MulInt(digits, k) ==
  With(digits, LAMBDA a :
    AddBig(MulSmall(a, k % Base),
           AddBig(ShiftDigits(MulSmall(a, (k \div Base) % Base), 1),
                  ShiftDigits(MulSmall(a, k \div (Base * Base)), 2))))

\* a divided by q, for 0 < q < 2^15, by long division: quotient and remainder.
DivSmall(digits, q) ==
  With(digits, LAMBDA a :
    LET n == Len(a)
        rem[j \in 0..n] ==
          IF j = 0 THEN 0 ELSE (rem[j - 1] * Base + a[n + 1 - j]) % q
    IN [quo |-> Norm([i \in 1..n |-> (rem[n - i] * Base + a[i]) \div q]),
        rem |-> rem[n]])

\* a times 2^s.
ShiftLeft(a, s) == MulSmall(ShiftDigits(a, s \div 15), Pow2[s % 15])

\* a divided by 2^s: the quotient, and whether a remainder is left.
ShiftRight(digits, bits) ==
  With(digits, LAMBDA a : With(bits, LAMBDA s :
    With(DivSmall(IF s \div 15 >= Len(a) THEN <<>> ELSE SubSeq(a, s \div 15 + 1, Len(a)),
                  Pow2[s % 15]),
         LAMBDA cut :
           [quo |-> cut.quo,
            inexact |-> cut.rem # 0 \/ \E i \in 1..(s \div 15) : i <= Len(a) /\ a[i] # 0])))

\* The number of bits of a.
BitLen(digits) ==
  With(digits, LAMBDA a :
    IF a = <<>> THEN 0
    ELSE 15 * (Len(a) - 1)
           + CHOOSE b \in 1..15 : Pow2[b - 1] <= a[Len(a)] /\ a[Len(a)] < Pow2[b])

IsOdd(digits) == With(digits, LAMBDA a : a # <<>> /\ a[1] % 2 = 1)

\* a rounded to 53 bits; inexact tells that something below its last bit was cut
\* off already.  The result is mant * 2^shift.
Round53(digits, inexact) ==
  With(digits, LAMBDA a : With(BitLen(a), LAMBDA len :
    IF len <= 53 THEN [mant |-> a, shift |-> 0]
    ELSE With(ShiftRight(a, len - 54), LAMBDA g :
           With(ShiftRight(g.quo, 1).quo, LAMBDA kept :
             [mant |-> IF IsOdd(g.quo) /\ (inexact \/ g.inexact \/ IsOdd(kept))
                       THEN AddBig(kept, <<1>>) ELSE kept,
              shift |-> len - 53]))))

\* r.quo divided by 10^dec, one digit at a time; r.inexact gathers the remainders.
RECURSIVE DivPow10(_, _)
DivPow10(r, dec) ==
  With(r, LAMBDA v :
    IF dec = 0 THEN v
    ELSE With(DivSmall(v.quo, 10), LAMBDA d :
           DivPow10([quo |-> d.quo, inexact |-> v.inexact \/ d.rem # 0], dec - 1)))

\* The float nearest to x / 10^dec, for a float x: the quotient is taken with enough
\* bits below the point for the rounding to see them.
FloatDivPow10(float, dec) ==
  With(float, LAMBDA x :
  IF x.mant = <<>> THEN x
  ELSE With(DivPow10([quo |-> ShiftLeft(x.mant, 64 + 4 * dec), inexact |-> FALSE], dec),
            LAMBDA d :
              With(Round53(d.quo, d.inexact), LAMBDA r :
                [neg |-> x.neg, mant |-> r.mant, exp |-> x.exp + r.shift - (64 + 4 * dec)])))

\* float(n) for an int n, 0 <= n < 2^31: exact.
FloatOfNat(n) == [neg |-> FALSE, mant |-> BigOf(n), exp |-> 0]

\* x * k for a float x and an int k, 0 <= k < 2^31: the exact product, rounded.
FloatMul(float, k) ==
  With(float, LAMBDA x :
    With(Round53(MulInt(x.mant, k), FALSE), LAMBDA r :
      [neg |-> x.neg, mant |-> r.mant, exp |-> x.exp + r.shift]))

\* n + y for an int n and a float y with 0 <= y < 1: the exact sum, rounded.
FloatAdd(n, float) ==
  With(float, LAMBDA y :
    IF y.mant = <<>> THEN FloatOfNat(n)
    ELSE With(Round53(AddBig(ShiftLeft(BigOf(n), 0 - y.exp), y.mant), FALSE), LAMBDA r :
           [neg |-> FALSE, mant |-> r.mant, exp |-> y.exp + r.shift]))

\* int(x): truncation toward zero; the result is below 2^31.
IntOf(float) ==
  With(float, LAMBDA x :
    With(IF x.exp >= 0 THEN NatOf(ShiftLeft(x.mant, x.exp))
         ELSE NatOf(ShiftRight(x.mant, 0 - x.exp).quo),
         LAMBDA n : IF x.neg THEN 0 - n ELSE n))

(***************************************************************************)
(* CountEstimator: _parse_comment_count.                                   *)
(*                                                                         *)
(* float(s) reads a decimal number as sign, digits, number of decimals and *)
(* exponent, and rounds it to the nearest float.  The strings of the model *)
(* hold no underscore, and their numbers stay below 2^31.                  *)
(***************************************************************************)
Raise(exc) == [t |-> "raise", exc |-> exc]
Raises(x) == x.t = "raise"

\* str.index of the first "." of s, or 0.
DotAt(s) == IF \E i \in 1..Len(s) : s[i] = "."
            THEN CHOOSE i \in 1..Len(s) : s[i] = "." /\ \A j \in 1..(i - 1) : s[j] # "."
            ELSE 0

\* The index of the exponent mark of s, or 0.
ExpAt(s) == IF \E i \in 1..Len(s) : s[i] = "e"
            THEN CHOOSE i \in 1..Len(s) : s[i] = "e" /\ \A j \in 1..(i - 1) : s[j] # "e"
            ELSE 0

\* The exponent part of a float literal, after its mark: [ok, neg, val].
Exponent(s) ==
  LET signed == Len(s) > 0 /\ s[1] \in {"+", "-"}
      ds == IF signed THEN Tail(s) ELSE s
  IN [ok |-> Len(ds) > 0 /\ AllDigits(ds),
      neg |-> signed /\ s[1] = "-",
      val |-> IF AllDigits(ds) THEN DigitsVal[ds] ELSE 0]

\* float(s) for an unsigned s: [kind, num, dec] with value num / 10^dec.
FloatUnsigned[s \in Strings] ==
  LET x == ExpAt(s)
      mant == IF x = 0 THEN s ELSE SubSeq(s, 1, x - 1)
      ex == IF x = 0 THEN [ok |-> TRUE, neg |-> FALSE, val |-> 0]
            ELSE Exponent(SubSeq(s, x + 1, Len(s)))
      d == DotAt(mant)
      ip == IF d = 0 THEN mant ELSE SubSeq(mant, 1, d - 1)
      fp == IF d = 0 THEN <<>> ELSE SubSeq(mant, d + 1, Len(mant))
      \* the decimals that are left when the exponent has moved the point
      dec == IF ex.neg THEN Len(fp) + ex.val
             ELSE IF ex.val >= Len(fp) THEN 0 ELSE Len(fp) - ex.val
      up == IF ~ex.neg /\ ex.val > Len(fp) THEN ex.val - Len(fp) ELSE 0
  IN IF s = <<"i", "n", "f">> \/ s = <<"i", "n", "f", "i", "n", "i", "t", "y">>
        THEN [kind |-> "inf", num |-> 0, dec |-> 0]
     ELSE IF s = <<"n", "a", "n">> THEN [kind |-> "nan", num |-> 0, dec |-> 0]
     ELSE IF AllDigits(ip) /\ AllDigits(fp) /\ Len(ip) + Len(fp) > 0 /\ ex.ok
        THEN [kind |-> "num", num |-> DigitsVal[ip \o fp] * Pow10[up], dec |-> dec]
     ELSE [kind |-> "err", num |-> 0, dec |-> 0]

\* float(s): surrounding whitespace and one sign are accepted.
Float[s \in Strings] ==
  LET t == Strip(s)
      signed == Len(t) > 0 /\ Head(t) \in {"+", "-"}
      u == FloatUnsigned[IF signed THEN Tail(t) ELSE t]
  IN [kind |-> u.kind, neg |-> signed /\ Head(t) = "-", num |-> u.num, dec |-> u.dec]

\* The float that float(s) returns for a finite f = Float[s].
FloatOf(f) ==
  With(FloatDivPow10(FloatOfNat(f.num), f.dec), LAMBDA x :
    [neg |-> f.neg, mant |-> x.mant, exp |-> x.exp])

\* lines 163 and 166: int(float(count_str) * multiplier).
IntOfProduct(f, multiplier) == Num(IntOf(FloatMul(FloatOf(f), multiplier)))

\* lines 168-179: the except branch, on the string as it was before the suffix was cut.
ParseFallback(original_str, multiplier) ==
  With(FindAllDigitRuns[original_str], LAMBDA numbers :
    IF Len(numbers) = 0 THEN Null
    ELSE IF Len(numbers) > 1 /\ Contains(original_str, <<".">>)
       THEN Num(IntOf(FloatMul(
              FloatAdd(DigitsVal[numbers[1]],
                       FloatDivPow10(FloatOfNat(DigitsVal[numbers[2]]), Len(numbers[2]))),
              multiplier)))
    ELSE Num(IntOf(FloatMul(FloatOfNat(DigitsVal[numbers[1]]), multiplier))))

\* The result is Null (None), Num(n), or Raise(exc) for an exception that escapes.
_parse_comment_count[count_str \in Strings] ==
  IF Len(count_str) = 0 THEN Null
  ELSE
    With(Strip(Remove[Remove[Lower(count_str),
                             <<"c", "o", "m", "m", "e", "n", "t", "s">>],
                      <<"c", "o", "m", "m", "e", "n", "t">>]),
         LAMBDA original_str :
           LET last == IF Len(original_str) = 0 THEN ""
                       ELSE original_str[Len(original_str)]
               multiplier == CASE last = "k" -> 1000
                                [] last = "m" -> 1000000
                                [] last = "b" -> 1000000000
                                [] OTHER -> 1
               cut == IF multiplier > 1
                      THEN SubSeq(original_str, 1, Len(original_str) - 1)
                      ELSE original_str
           IN With(Float[Remove[cut, <<",">>]],
                   LAMBDA f :
                     CASE f.kind = "num" -> IntOfProduct(f, multiplier)
                       [] f.kind = "inf" -> Raise("OverflowError")
                       [] OTHER -> ParseFallback(original_str, multiplier)))

(***************************************************************************)
(* CountEstimator: _extract_comment_count.  Text values are strings.       *)
(***************************************************************************)
\* The characters of a text value; "" when the key was absent.
Chars(x) == With(x, LAMBDA v : IF IsStr(v) THEN v.s ELSE <<>>)

\* "if parsed: return parsed": None and 0 fall through, an exception escapes.
Accepted(parsed) == Raises(parsed) \/ (IsNum(parsed) /\ parsed.n # 0)

\* parsed = ...; if parsed: return parsed; then what follows in the code.
OrElse(parsed, otherwise) ==
  With(parsed, LAMBDA v : IF Accepted(v) THEN v ELSE otherwise)

\* The first accepted one of attempts[i], ..., attempts[n], else None.
RECURSIVE FirstAccepted(_, _, _)
FirstAccepted(attempts, n, i) ==
  IF i > n THEN Null
  ELSE OrElse(attempts[i], FirstAccepted(attempts, n, i + 1))

\* runs[0].get("text", "") parsed, when runs is not empty.
FromFirstRun(count_text) ==
  With(Elems(Get(count_text, "runs", Arr(<<>>))),
       LAMBDA runs :
         IF Len(runs) > 0
         THEN _parse_comment_count[Chars(Get(runs[1], "text", Str(<<>>)))]
         ELSE Null)

\* Every run's text parsed, in order (the title of commentsHeaderRenderer).
FromEveryRun(title) ==
  With(Elems(Get(title, "runs", Arr(<<>>))),
       LAMBDA runs :
         FirstAccepted([i \in 1..Len(runs) |->
                          _parse_comment_count[Chars(Get(runs[i], "text", Str(<<>>)))]],
                       Len(runs), 1))

FromSimpleText(count_text) ==
  _parse_comment_count[Chars(Get(count_text, "simpleText", Str(<<>>)))]

\* lines 38-50, 55-67, 73-85: text.runs[0].text, then text.simpleText.
FromCountText(renderer, key) ==
  With(Get(renderer, key, EmptyDict),
       LAMBDA count_text :
         IF Truthy(renderer) /\ Truthy(count_text)
         THEN IF ~IsDict(count_text) THEN Raise("AttributeError")
              ELSE OrElse(FromFirstRun(count_text),
                          OrElse(FromSimpleText(count_text), Null))
         ELSE Null)

\* lines 88-101: the title of commentsHeaderRenderer.
FromTitle(comments_header) ==
  With(Get(comments_header, "title", EmptyDict),
       LAMBDA title :
         IF Truthy(comments_header) /\ Truthy(title)
         THEN IF ~IsDict(title) THEN Raise("AttributeError")
              ELSE OrElse(FromEveryRun(title), OrElse(FromSimpleText(title), Null))
         ELSE Null)

\* lines 104-111: a commentCount field, numeric or a string to parse.
FromCommentCount(data) ==
  With(NextOr(search_dict(data, "commentCount"), Null),
       LAMBDA comment_count :
         IF ~Truthy(comment_count) THEN Null
         ELSE IF IsNum(comment_count) THEN comment_count
         ELSE IF IsStr(comment_count) THEN _parse_comment_count[comment_count.s]
         ELSE Null)

\* "comment" in text.lower() and any(c.isdigit() for c in text), then parse.
FromCommentText(text) ==
  IF Contains(Lower(text), <<"c", "o", "m", "m", "e", "n", "t">>) /\ AnyDigit(text)
  THEN _parse_comment_count[text]
  ELSE Null

\* lines 115-129: every dict found under "text": its runs, then its simpleText.
FromTextField(text_field) ==
  IF ~IsDict(text_field) THEN Null
  ELSE With(Elems(Get(text_field, "runs", Arr(<<>>))),
            LAMBDA runs :
              OrElse(
                FirstAccepted(
                  [i \in 1..Len(runs) |->
                     FromCommentText(Chars(Get(runs[i], "text", Str(<<>>))))],
                  Len(runs), 1),
                OrElse(FromCommentText(Chars(Get(text_field, "simpleText", Str(<<>>)))),
                       Null)))

FromAllText(data) ==
  With(search_dict(data, "text"),
       LAMBDA fields :
         FirstAccepted([i \in 1..Len(fields) |-> FromTextField(fields[i])], Len(fields), 1))

\* The result is Null (None), Num(n), or Raise(exc).
_extract_comment_count(data) ==
  OrElse(FromCountText(NextOr(search_dict(data, "commentCountRenderer"), Null), "text"),
  OrElse(FromCountText(NextOr(search_dict(data, "headerRenderer"), Null), "countText"),
  OrElse(FromCountText(NextOr(search_dict(data, "commentsHeaderRenderer"), Null), "countText"),
  OrElse(FromTitle(NextOr(search_dict(data, "commentsHeaderRenderer"), Null)),
  OrElse(FromCommentCount(data),
  OrElse(FromAllText(data), Null))))))

(***************************************************************************)
(* The inputs of a run: the initial data blob that the page loader         *)
(* extracts, and the responses of the transport.                           *)
(***************************************************************************)
\* A continuation endpoint carrying token n; the engine passes it on unread.
Ep(n) == Obj(<<KV("continuationCommand", Obj(<<KV("token", Num(n))>>))>>)

\* An itemSectionRenderer whose continuationItemRenderer holds endpoint 3.
SectionWithRenderer ==
  KV("itemSectionRenderer", Obj(<<
    KV("contents", Arr(<<Obj(<<
      KV("continuationItemRenderer", Obj(<<KV("continuationEndpoint", Ep(3))>>))>>)>>))>>))

\* A sort submenu whose two items carry the endpoints a ("Top") and b ("Newest").
SortMenu(a, b) ==
  KV("sortFilterSubMenuRenderer", Obj(<<
    KV("subMenuItems", Arr(<<
      Obj(<<KV("title", Str(<<"T", "o", "p">>)), KV("serviceEndpoint", Ep(a))>>),
      Obj(<<KV("title", Str(<<"N", "e", "w">>)), KV("serviceEndpoint", Ep(b))>>)>>))>>))

\* A comments header whose countText reads txt.
CountHeader(txt) ==
  KV("commentsHeaderRenderer", Obj(<<
    KV("countText", Obj(<<KV("runs", Arr(<<Obj(<<KV("text", Str(txt))>>)>>))>>))>>))

\* A watch page: comments enabled, sort submenu present, count "1.2K".
DataVideoCount ==
  Obj(<<KV("contents", Obj(<<
          KV("sectionListRenderer", Obj(<<KV("contents", Arr(<<Obj(<<SectionWithRenderer>>)>>))>>))>>)),
        KV("engagementPanels", Arr(<<Obj(<<
          CountHeader(<<"1", ".", "2", "K">>), SortMenu(1, 2)>>)>>))>>)

\* A watch page without any count text.
DataVideoNoCount ==
  Obj(<<KV("contents", Obj(<<
          KV("sectionListRenderer", Obj(<<KV("contents", Arr(<<Obj(<<SectionWithRenderer>>)>>))>>))>>)),
        KV("engagementPanels", Arr(<<Obj(<<SortMenu(1, 2)>>)>>))>>)

\* A community post: no sort submenu, a sectionListRenderer with an endpoint,
\* and a numeric commentCount.
DataCommunity ==
  Obj(<<KV("contents", Obj(<<
          KV("sectionListRenderer", Obj(<<KV("contents", Arr(<<Obj(<<SectionWithRenderer>>)>>))>>))>>)),
        KV("commentCount", Num(7))>>)

\* No sort submenu, and no continuationEndpoint under the sectionListRenderer: the
\* itemSectionRenderer, with its endpoint, lies beside it.
DataCommunityNoEndpoint ==
  Obj(<<KV("contents", Obj(<<
          KV("sectionListRenderer", Obj(<<KV("contents", Arr(<<>>))>>)),
          SectionWithRenderer>>))>>)

\* Comments disabled: no itemSectionRenderer at all; a continuationItemRenderer of
\* something else, the count text and the sort submenu are still there.
DataNoSection ==
  Obj(<<KV("contents", Obj(<<KV("sectionListRenderer", Obj(<<KV("contents", Arr(<<
          Obj(<<KV("continuationItemRenderer", Obj(<<
            KV("continuationEndpoint", Ep(3))>>))>>)>>))>>))>>)),
        KV("engagementPanels", Arr(<<Obj(<<
          CountHeader(<<"1", ".", "2", "K">>), SortMenu(1, 2)>>)>>))>>)

\* Comments disabled: the first itemSectionRenderer holds no continuationItemRenderer.
DataSectionNoRenderer ==
  Obj(<<KV("contents", Obj(<<
          KV("itemSectionRenderer", Obj(<<KV("contents", Arr(<<Obj(<<
            KV("messageRenderer", Obj(<<KV("text", Obj(<<
              KV("simpleText", Str(<<"o", "f", "f">>))>>))>>))>>)>>))>>))>>)),
        KV("engagementPanels", Arr(<<Obj(<<SortMenu(1, 2)>>)>>))>>)

InitialDatas ==
  {DataVideoCount, DataVideoNoCount, DataCommunity, DataCommunityNoEndpoint,
   DataNoSection, DataSectionNoRenderer}

\* The i-th comment of the n-th response: cid "c<n><i>", or "c<n>.<i>" for a reply.
Cid(n, i, isReply) ==
  IF isReply THEN <<"c", Digits[n + 1], ".", Digits[i + 1]>>
  ELSE <<"c", Digits[n + 1], Digits[i + 1]>>

ToolbarKey(n, i) == <<"k", Digits[n + 1], Digits[i + 1]>>

\* One mutation holding a commentEntityPayload.
CommentMutation(n, i, isReply, likes) ==
  Obj(<<KV("payload", Obj(<<KV("commentEntityPayload", Obj(<<
    KV("properties", Obj(<<
      KV("commentId", Str(Cid(n, i, isReply))),
      KV("content", Obj(<<KV("content", Str(<<"h", "i", Digits[i + 1]>>))>>)),
      KV("publishedTime", Str(<<"n", "o", "w">>)),
      KV("toolbarStateKey", Str(ToolbarKey(n, i)))>>)),
    KV("author", Obj(<<
      KV("displayName", Str(<<"@", "a">>)),
      KV("channelId", Str(<<"U", "C", "1">>)),
      KV("avatarThumbnailUrl", Str(<<"u", "r", "l">>))>>)),
    KV("toolbar", Obj(<<
      KV("likeCountNotliked", Str(likes)),
      KV("replyCount", Str(<<"0">>))>>))>>))>>))>>)

\* One mutation holding the toolbar state of comment i, hearted or not.
ToolbarMutation(n, i, hearted) ==
  Obj(<<KV("payload", Obj(<<KV("engagementToolbarStateEntityPayload", Obj(
    <<KV("key", Str(ToolbarKey(n, i)))>>
    \o (IF hearted
        THEN <<KV("heartState", Str(<<"T", "O", "O", "L", "B", "A", "R", "_", "H", "E",
                 "A", "R", "T", "_", "S", "T", "A", "T", "E", "_", "H", "E", "A", "R",
                 "T", "E", "D">>))>>
        ELSE <<>>)))>>))>>)

\* The frameworkUpdates of a response with k comments: toolbar states, then comments.
Mutations(n, k, isReply) ==
  KV("frameworkUpdates", Obj(<<KV("entityBatchUpdate", Obj(<<KV("mutations", Arr(
    [i \in 1..k |-> ToolbarMutation(n, i, i = 1)]
    \o [i \in 1..k |-> CommentMutation(n, i, isReply,
                         IF i = 1 THEN <<" ">> ELSE <<" ", "5", " ">>)]))>>))>>))

\* The targetId values that lines 240-245 compare with.
COMMENTS_SECTION == <<"c", "o", "m", "m", "e", "n", "t", "s", "-", "s", "e", "c", "t",
    "i", "o", "n">>
PANEL_COMMENTS_SECTION ==
  <<"e", "n", "g", "a", "g", "e", "m", "e", "n", "t", "-", "p", "a", "n", "e", "l",
    "-", "c", "o", "m", "m", "e", "n", "t", "s", "-", "s", "e", "c", "t", "i", "o", "n">>
SHORTS_PANEL_COMMENTS_SECTION ==
  <<"s", "h", "o", "r", "t", "s", "-", "e", "n", "g", "a", "g", "e", "m", "e", "n",
    "t", "-", "p", "a", "n", "e", "l", "-", "c", "o", "m", "m", "e", "n", "t", "s", "-",
    "s", "e", "c", "t", "i", "o", "n">>
COMMENT_REPLIES_ITEM == <<"c", "o", "m", "m", "e", "n", "t", "-", "r", "e", "p", "l",
    "i", "e", "s", "-", "i", "t", "e", "m">>
\* The targetId of the replies of comment c1.
REPLIES_ITEM_C1 == COMMENT_REPLIES_ITEM \o <<"-", "c", "1">>

\* An item of a comments section: a thread whose replies are behind endpoint a.
ThreadItem(a) ==
  Obj(<<KV("commentThreadRenderer", Obj(<<KV("replies", Obj(<<
    KV("commentRepliesRenderer", Obj(<<KV("contents", Arr(<<Obj(<<
      KV("continuationItemRenderer", Obj(<<KV("continuationEndpoint", Ep(a))>>))>>)>>))>>))>>))>>))>>)

\* The item that holds the continuation of the section: the next page, endpoint b.
NextPageItem(b) ==
  Obj(<<KV("continuationItemRenderer", Obj(<<KV("continuationEndpoint", Ep(b))>>))>>)

\* The "Show more replies" item: its button's command is endpoint a.
MoreRepliesItem(a) ==
  Obj(<<KV("continuationItemRenderer", Obj(<<KV("button", Obj(<<
    KV("buttonRenderer", Obj(<<KV("command", Ep(a))>>))>>))>>))>>)

\* An item without any continuation.
PlainItem == Obj(<<KV("commentViewModel", Obj(<<KV("n", Num(1))>>))>>)

Action(kind, targetId, items) ==
  Obj(<<KV(kind, Obj(<<KV("targetId", Str(targetId)),
                       KV("continuationItems", Arr(items))>>))>>)

\* A page of 3 comments: a thread with replies (a), then the next page (b).
PageBoth(n, a, b) ==
  Obj(<<KV("onResponseReceivedEndpoints", Arr(<<
          Action("reloadContinuationItemsCommand", COMMENTS_SECTION,
                 <<ThreadItem(a), NextPageItem(b)>>)>>)),
        Mutations(n, 3, FALSE)>>)

\* A page of 2 replies with a "Show more replies" button (a).
Replies(n, a) ==
  Obj(<<KV("onResponseReceivedEndpoints", Arr(<<
          Action("appendContinuationItemsAction", REPLIES_ITEM_C1,
                 <<PlainItem, MoreRepliesItem(a)>>)>>)),
        Mutations(n, 2, TRUE)>>)

\* A page of 1 comment: the append action comes first in the document, with a
\* replies button (b); then a reload action of a shorts panel with the next page
\* (a); then an action of another target, whose endpoint 0 is not a continuation
\* of the comments.
PanelMixed(n, a, b) ==
  Obj(<<KV("onResponseReceivedEndpoints", Arr(<<
          Action("appendContinuationItemsAction", REPLIES_ITEM_C1, <<MoreRepliesItem(b)>>),
          Action("reloadContinuationItemsCommand", SHORTS_PANEL_COMMENTS_SECTION,
                 <<PlainItem, NextPageItem(a)>>),
          Action("reloadContinuationItemsCommand", <<"f", "e", "e", "d">>,
                 <<NextPageItem(0)>>)>>)),
        Mutations(n, 1, FALSE)>>)

\* The last page: 1 comment, no continuation.
LastPage(n) ==
  Obj(<<KV("onResponseReceivedEndpoints", Arr(<<
          Action("appendContinuationItemsAction", PANEL_COMMENTS_SECTION, <<PlainItem>>)>>)),
        Mutations(n, 1, FALSE)>>)

\* x without the field at the end of path, a sequence of keys from x downwards.
RECURSIVE Without(_, _)
Without(x, path) ==
  IF Len(path) = 1
  THEN Obj(SelectSeq(x.kv, LAMBDA e : e.k # path[1]))
  ELSE Obj([i \in 1..Len(x.kv) |->
              IF x.kv[i].k = path[1]
              THEN KV(path[1], Without(x.kv[i].v, Tail(path)))
              ELSE x.kv[i]])

\* The fields of a commentEntityPayload that lines 252-268 subscript.
RequiredPaths ==
  <<<<"properties", "commentId">>,
    <<"properties", "publishedTime">>,
    <<"properties", "content", "content">>,
    <<"properties", "toolbarStateKey">>,
    <<"author", "displayName">>,
    <<"author", "channelId">>,
    <<"author", "avatarThumbnailUrl">>,
    <<"toolbar", "likeCountNotliked">>,
    <<"toolbar", "replyCount">>>>

\* A page after a change of shape upstream: 2 comments and no continuation; the
\* comment found first lacks its f-th required field or, for f = 0, its toolbar
\* state.
DriftedPage(n, f) ==
  Obj(<<KV("onResponseReceivedEndpoints", Arr(<<
          Action("appendContinuationItemsAction", COMMENTS_SECTION, <<PlainItem>>)>>)),
        KV("frameworkUpdates", Obj(<<KV("entityBatchUpdate", Obj(<<KV("mutations", Arr(
          (IF f = 0 THEN <<>> ELSE <<ToolbarMutation(n, 1, FALSE)>>)
          \o <<ToolbarMutation(n, 2, TRUE),
               IF f = 0 THEN CommentMutation(n, 1, FALSE, <<"3">>)
               ELSE Without(CommentMutation(n, 1, FALSE, <<"3">>),
                            <<"payload", "commentEntityPayload">> \o RequiredPaths[f]),
               CommentMutation(n, 2, FALSE, <<"4">>)>>))>>))>>))>>)

\* The response to the request of a community post: a sort submenu and "12 Comments".
MenuResponse(a, b) ==
  Obj(<<KV("header", Obj(<<
    CountHeader(<<"1", "2", " ", "C", "o", "m", "m", "e", "n", "t", "s">>),
    SortMenu(a, b)>>))>>)

\* An error of the server.
ErrorResponse ==
  Obj(<<KV("error", Obj(<<KV("externalErrorMessage", Str(<<"q", "u", "o", "t", "a">>))>>))>>)

\* What the transport may answer to the n-th request when it has handed out
\* `used` fresh tokens so far: each answer with the number of tokens it adds.
\* None and {} are its falsy answers.
Answers(n, used) ==
  LET a == 3 + used + 1
      b == 3 + used + 2
  IN {[response |-> Null, tokens |-> 0],
      [response |-> EmptyDict, tokens |-> 0],
      [response |-> ErrorResponse, tokens |-> 0],
      [response |-> LastPage(n), tokens |-> 0],
      [response |-> Replies(n, a), tokens |-> 1],
      [response |-> PageBoth(n, a, b), tokens |-> 2],
      [response |-> PanelMixed(n, a, b), tokens |-> 2],
      [response |-> MenuResponse(a, b), tokens |-> 2],
      [response |-> DriftedPage(n, 0), tokens |-> 0]}

\* What the transport may answer after a change of shape upstream: a comment may
\* lack any one of its required fields, or its toolbar state.
DriftAnswers(n, used) ==
  LET a == 3 + used + 1
      b == 3 + used + 2
  IN {[response |-> Null, tokens |-> 0],
      [response |-> LastPage(n), tokens |-> 0],
      [response |-> Replies(n, a), tokens |-> 1],
      [response |-> MenuResponse(a, b), tokens |-> 2]}
       \cup {[response |-> DriftedPage(n, f), tokens |-> 0] : f \in 0..Len(RequiredPaths)}

(***************************************************************************)
(* The engine, get_comments_from_url: its pure parts.                      *)
(***************************************************************************)
SORT_BY_POPULAR == 0
SORT_BY_RECENT == 1

Ok(v) == [t |-> "ok", v |-> v]
RaiseMsg(exc, msg) == [t |-> "raise", exc |-> exc, msg |-> msg]

FAILED_TO_SET_SORTING ==
  <<"F", "a", "i", "l", "e", "d", " ", "t", "o", " ", "s", "e", "t", " ", "s", "o",
    "r", "t", "i", "n", "g">>
ERROR_RETURNED_FROM_SERVER ==
  <<"E", "r", "r", "o", "r", " ", "r", "e", "t", "u", "r", "n", "e", "d", " ", "f",
    "r", "o", "m", " ", "s", "e", "r", "v", "e", "r", ":", " ">>
TOOLBAR_HEART_STATE_HEARTED ==
  <<"T", "O", "O", "L", "B", "A", "R", "_", "H", "E", "A", "R", "T", "_", "S", "T",
    "A", "T", "E", "_", "H", "E", "A", "R", "T", "E", "D">>

\* A mutant of Renderer: the continuationItemRenderer is looked for in all of data.
RendererAnywhere(data) == NextOr(search_dict(data, "continuationItemRenderer"), Null)

\* lines 191-192: the continuationItemRenderer of the first itemSectionRenderer.
Renderer(data) ==
  With(NextOr(search_dict(data, "itemSectionRenderer"), Null),
       LAMBDA item_section :
         IF Truthy(item_section)
         THEN NextOr(search_dict(item_section, "continuationItemRenderer"), Null)
         ELSE Null)

\* lines 197 and 204: the subMenuItems of the first sortFilterSubMenuRenderer.
SubMenuItems(data) ==
  Elems(Get(NextOr(search_dict(data, "sortFilterSubMenuRenderer"), EmptyDict),
            "subMenuItems", Arr(<<>>)))

\* lines 200-201: the continuationEndpoints of the first sectionListRenderer.
SectionListContinuations(data) ==
  search_dict(NextOr(search_dict(data, "sectionListRenderer"), EmptyDict),
              "continuationEndpoint")

\* lines 236-237 and 284-285: the reload commands, then the append actions.
ContinuationActions(response) ==
  search_dict(response, "reloadContinuationItemsCommand")
    \o search_dict(response, "appendContinuationItemsAction")

\* lines 240-242 and 288-290.
TopLevelTargets ==
  {COMMENTS_SECTION, PANEL_COMMENTS_SECTION, SHORTS_PANEL_COMMENTS_SECTION}

\* A mutant of SpliceFront: the endpoints found in the item go to the back.
SpliceBack(continuations, item) ==
  continuations \o search_dict(item, "continuationEndpoint")

\* lines 244 and 292: continuations[:0] = the endpoints found in the item.
SpliceFront(continuations, item) ==
  search_dict(item, "continuationEndpoint") \o continuations

\* A mutant of AppendButton: the command of the button goes to the front of the queue.
PrependButton(continuations, item) ==
  With(search_dict(item, "buttonRenderer"),
       LAMBDA buttons :
         IF Len(buttons) = 0 THEN Raise("RuntimeError")
         ELSE IF ~HasKey(buttons[1], "command") THEN Raise("KeyError")
         ELSE Ok(<<Lookup(buttons[1], "command")>> \o continuations))

\* lines 247 and 295: continuations.append(the command of the first buttonRenderer).
\* A next() without a match raises StopIteration, a RuntimeError in a generator.
AppendButton(continuations, item) ==
  With(search_dict(item, "buttonRenderer"),
       LAMBDA buttons :
         IF Len(buttons) = 0 THEN Raise("RuntimeError")
         ELSE IF ~HasKey(buttons[1], "command") THEN Raise("KeyError")
         ELSE Ok(Append(continuations, Lookup(buttons[1], "command"))))

\* lines 240-247 and 288-295: what one item of one action does to the queue.
QueueAfterItem(continuations, action, item) ==
  IF ~HasKey(action, "targetId") THEN Raise("KeyError")
  ELSE LET targetId == Chars(Lookup(action, "targetId"))
           spliced == IF targetId \in TopLevelTargets
                      THEN SpliceFront(continuations, item)
                      ELSE continuations
       IN IF StartsWith(targetId, COMMENT_REPLIES_ITEM)
               /\ HasKey(item, "continuationItemRenderer")
          THEN AppendButton(spliced, item)
          ELSE Ok(spliced)

\* lines 239 and 287: for item in action.get("continuationItems", []), from the
\* i-th item on; r is the queue so far, or the exception that ended the loop.
RECURSIVE QueueAfterItems(_, _, _, _)
QueueAfterItems(r, action, items, i) ==
  With(r, LAMBDA q :
    IF Raises(q) \/ i > Len(items) THEN q
    ELSE QueueAfterItems(QueueAfterItem(q.v, action, items[i]), action, items, i + 1))

\* lines 238 and 286: for action in actions, from the j-th action on.
RECURSIVE QueueAfterActions(_, _, _)
QueueAfterActions(r, actions, j) ==
  With(r, LAMBDA q :
    IF Raises(q) \/ j > Len(actions) THEN q
    ELSE QueueAfterActions(
           QueueAfterItems(q, actions[j],
                           Elems(Get(actions[j], "continuationItems", Arr(<<>>))), 1),
           actions, j + 1))

\* lines 249-250 and 297-298: the toolbar payloads, each of which must have a key.
ToolbarStates(response) ==
  With(search_dict(response, "engagementToolbarStateEntityPayload"),
       LAMBDA payloads :
         IF \E i \in 1..Len(payloads) : ~HasKey(payloads[i], "key")
         THEN Raise("KeyError")
         ELSE Ok(payloads))

\* toolbar_states[key]: in the dict a later payload of the same key replaces an earlier.
HasState(toolbar_states, key) ==
  \E i \in 1..Len(toolbar_states) : Lookup(toolbar_states[i], "key") = key
StateOf(toolbar_states, key) ==
  toolbar_states[CHOOSE i \in 1..Len(toolbar_states) :
    /\ Lookup(toolbar_states[i], "key") = key
    /\ \A j \in (i + 1)..Len(toolbar_states) : Lookup(toolbar_states[j], "key") # key]

\* A mutant of CommentsToYield: the comments in the order they are found.
CommentsAsFound(response) == search_dict(response, "commentEntityPayload")

\* lines 251 and 299: the comments of a response in the order they are yielded.
CommentsToYield(response) == Reverse(search_dict(response, "commentEntityPayload"))

\* lines 252-268 and 300-316: every subscript raises KeyError when the key is missing.
HasRequired(comment, toolbar_states) ==
  /\ HasKey(comment, "properties")
  /\ HasKey(Lookup(comment, "properties"), "commentId")
  /\ HasKey(comment, "author")
  /\ HasKey(comment, "toolbar")
  /\ HasKey(Lookup(comment, "properties"), "toolbarStateKey")
  /\ HasState(toolbar_states, Lookup(Lookup(comment, "properties"), "toolbarStateKey"))
  /\ HasKey(Lookup(comment, "properties"), "content")
  /\ HasKey(Lookup(Lookup(comment, "properties"), "content"), "content")
  /\ HasKey(Lookup(comment, "properties"), "publishedTime")
  /\ HasKey(Lookup(comment, "author"), "displayName")
  /\ HasKey(Lookup(comment, "author"), "channelId")
  /\ HasKey(Lookup(comment, "toolbar"), "likeCountNotliked")
  /\ HasKey(Lookup(comment, "toolbar"), "replyCount")
  /\ HasKey(Lookup(comment, "author"), "avatarThumbnailUrl")

\* A mutant of Votes: the like count is taken as it is, "0" when it is empty.
VotesUntrimmed(likeCountNotliked) ==
  IF Len(likeCountNotliked) > 0 THEN likeCountNotliked ELSE <<"0">>

\* lines 264 and 312: toolbar["likeCountNotliked"].strip() or "0".
Votes(likeCountNotliked) ==
  IF Len(Strip(likeCountNotliked)) > 0 THEN Strip(likeCountNotliked) ELSE <<"0">>

\* lines 252-268 and 300-316: the Comment of one commentEntityPayload.
ExtractComment(comment, toolbar_states) ==
  IF ~HasRequired(comment, toolbar_states) THEN Raise("KeyError")
  ELSE LET properties == Lookup(comment, "properties")
           cid == Chars(Lookup(properties, "commentId"))
           author == Lookup(comment, "author")
           toolbar == Lookup(comment, "toolbar")
           toolbar_state == StateOf(toolbar_states, Lookup(properties, "toolbarStateKey"))
           text_content == Chars(Lookup(Lookup(properties, "content"), "content"))
       IN Ok([cid |-> cid,
              text |-> text_content,
              text_length |-> Len(text_content),
              time |-> Chars(Lookup(properties, "publishedTime")),
              author |-> Chars(Lookup(author, "displayName")),
              channel |-> Chars(Lookup(author, "channelId")),
              votes |-> Votes(Chars(Lookup(toolbar, "likeCountNotliked"))),
              replies |-> Lookup(toolbar, "replyCount"),
              photo |-> Chars(Lookup(author, "avatarThumbnailUrl")),
              heart |-> Get(toolbar_state, "heartState", Str(<<>>))
                          = Str(TOOLBAR_HEART_STATE_HEARTED),
              reply |-> Contains(cid, <<".">>)])

\* A mutant of Back: the front of the queue is taken, while the back is removed.
Front(continuations) == continuations[1]

\* line 274: continuations.pop() returns the back of the queue and removes it.
Back(continuations) == continuations[Len(continuations)]
Popped(continuations) == SubSeq(continuations, 1, Len(continuations) - 1)

\* A mutant of AfterFirst: the seed leaves the queue whatever the first response was.
AfterFirstDropsSeed(continuations, answered) == Tail(continuations)

\* lines 216-224: a truthy first response takes the seed off the queue
\* (continuations[1:]); after a falsy one the queue is left as it is.
AfterFirst(continuations, answered) ==
  IF answered THEN Tail(continuations) ELSE continuations

\* A mutant of CountAfterFirst: the first response is not asked for a count.
CountFromDataOnly(count, answered) == count

\* lines 218-219: a count that data did not give is looked for in the first response.
CountAfterFirst(count, answered) ==
  IF count = Null THEN _extract_comment_count(answered) ELSE count

\* lines 232-250 and 280-298: a truthy response, between the request and the first
\* yield: the error check, the queue, the toolbar states, the comments to yield.
ProcessResponse(response, continuations) ==
  With(NextOr(search_dict(response, "externalErrorMessage"), Null), LAMBDA error :
    IF Truthy(error)
    THEN RaiseMsg("RuntimeError", ERROR_RETURNED_FROM_SERVER \o Chars(error))
    ELSE
      With(ContinuationActions(response), LAMBDA actions :
        With(QueueAfterActions(Ok(continuations), actions, 1), LAMBDA queue :
          IF Raises(queue) THEN queue
          ELSE
            With(ToolbarStates(response), LAMBDA states :
              IF Raises(states) THEN states
              ELSE Ok([continuations |-> queue.v,
                       toolbar_states |-> states.v,
                       comments |-> CommentsToYield(response)])))))

(***************************************************************************)
(* The run: the generator of get_comments_from_url, the transport that     *)
(* answers its requests and the consumer that pulls its items.             *)
(***************************************************************************)
VARIABLES
  pc,                   \* where the generator stands
  status,               \* "running", "returned" or "raised"
  error,                \* the exception raised, or Null
  pulling,              \* the consumer is inside next(): the generator runs
  sort_by,              \* the caller's sort index
  sleep,                \* the caller's delay between pages, in tenths of a second
  limit,                \* the consumer's limit on the comments it takes, or Null (None)
  upstream,             \* "stable", or "drifted": the shape of the responses has changed
  arg,                  \* the argument of a call of the estimator on its own, or Null
  ret,                  \* what that call returned or raised; Pending before it returns
  ytinitialdata,        \* the initial data blob of the page that was fetched
  data,                 \* the initial data, or the response that replaced it
  continuations,        \* the queue of continuation endpoints
  total_comment_count,  \* Null (None) or Num(n)
  first_response,       \* the response to the first request, or Null
  response,             \* the response of the current turn of the while loop
  toolbar_states,       \* the toolbar payloads of the response being yielded
  comments,             \* the reversed commentEntityPayloads being yielded
  ci,                   \* the index in comments of the next one to yield
  events,               \* what the run did so far: requests, yields, sleeps
  fresh                 \* how many fresh tokens the transport has handed out

(***************************************************************************)
(* The state of the other programs of the repository.  Each of them is     *)
(* modelled by a specification of its own; in the runs of another          *)
(* specification its variables stay None.                                  *)
(***************************************************************************)
\* run_analysis (ai/runner/analysis.py) and the checkpoint file it keeps.
VARIABLES
  run_pc,               \* where run_analysis stands
  job_comments,         \* comments: the ids of the loaded comments, in input order
  job_tasks,            \* job.tasks: the task ids, in order
  batch_size,           \* run_config.batch_size
  checkpointing,        \* enable_checkpoint and checkpoint_dir and not is_preview
  checkpoint,           \* the Checkpoint object (its completed map), or Null (None)
  checkpoint_file,      \* .checkpoint.json: the completed map it holds, or Null (no file)
  task_idx,             \* the index of the task of the for loop
  batches,              \* the batches of the task
  batch_idx,            \* the index of the batch of the inner for loop
  task_results,         \* comment id -> TaskResult, for the task of the loop
  all_task_results,     \* task id -> comment id -> TaskResult
  analysis_result,      \* the enriched comments returned, or Null
  executed,             \* the calls of execute_task so far, over all runs
  run_no                \* how many times run_analysis was started

analysis == <<run_pc, job_comments, job_tasks, batch_size, checkpointing, checkpoint,
              checkpoint_file, task_idx, batches, batch_idx, task_results,
              all_task_results, analysis_result, executed, run_no>>

AnalysisOff ==
  /\ run_pc = Null /\ job_comments = Null /\ job_tasks = Null /\ batch_size = Null
  /\ checkpointing = Null /\ checkpoint = Null /\ checkpoint_file = Null
  /\ task_idx = Null /\ batches = Null /\ batch_idx = Null /\ task_results = Null
  /\ all_task_results = Null /\ analysis_result = Null /\ executed = Null
  /\ run_no = Null

\* run_batch (pipelines/batch.py).
VARIABLES
  batch_pc,             \* where run_batch stands
  channels,             \* the channels parsed from the file, in file order; Null: no file
  fail_fast,            \* the fail_fast argument
  sleep_between,        \* the sleep_between argument
  channel_idx,          \* idx of the for loop, from 1
  stats_list,           \* the ChannelStats recorded so far
  report_file,          \* report.json: the stats it holds, or Null (not written)
  batch_ret,            \* what run_batch returned or raised, or Null
  scraped               \* the channels scrape_channel was called for, in call order

batch_run == <<batch_pc, channels, fail_fast, sleep_between, channel_idx, stats_list,
           report_file, batch_ret, scraped>>

BatchOff ==
  /\ batch_pc = Null /\ channels = Null /\ fail_fast = Null /\ sleep_between = Null
  /\ channel_idx = Null /\ stats_list = Null /\ report_file = Null /\ batch_ret = Null
  /\ scraped = Null

\* The loop over the videos of a channel (pipelines/channel_comments.py run and
\* pipelines/scraper.py scrape_channel).
VARIABLES
  loop_pc,              \* where the loop stands
  entry,                \* which of the two functions runs
  videos,               \* the video ids of the channel, in order
  config_quiet,         \* config.quiet (scrape_channel)
  config_debug,         \* debug
  video_idx,            \* idx of the while loop, from 0
  started,              \* the values of idx for which an export was started, in order
  interrupts,           \* how many times Ctrl+C has arrived
  loop_ret              \* how the function ended, or Null

video_loop == <<loop_pc, entry, videos, config_quiet, config_debug, video_idx,
                started, interrupts, loop_ret>>

ChannelOff ==
  /\ loop_pc = Null /\ entry = Null /\ videos = Null /\ config_quiet = Null
  /\ config_debug = Null /\ video_idx = Null /\ started = Null /\ interrupts = Null
  /\ loop_ret = Null

\* The export of the comments of one video: the first pull, the wrapper limited()
\* and write_jsonl (pipelines/video_comments.py, pipelines/scraper.py,
\* storage/writers.py).
VARIABLES
  export_pc,            \* where the export stands
  source_items,         \* what the generator of get_comments yields, in order
  gen,                  \* gen: the items still to come from it
  per_video_limit,      \* limit / config.per_video_limit: Num(n) or Null (None)
  first_item,           \* first_item, or Null (None)
  limited_count,        \* count of limited()
  written,              \* the records written to the file, in order
  wrote                 \* what write_jsonl returned, or Null

export == <<export_pc, source_items, gen, per_video_limit, first_item, limited_count,
            written, wrote>>

ExportOff ==
  /\ export_pc = Null /\ source_items = Null /\ gen = Null /\ per_video_limit = Null
  /\ first_item = Null /\ limited_count = Null /\ written = Null /\ wrote = Null

\* OpenAIAdapter.generate (ai/models/openai.py).
VARIABLES
  generate_pc,          \* where generate stands
  max_retries,          \* self.max_retries
  retry_delay,          \* self.retry_delay, in seconds
  attempt,              \* attempt of the for loop, from 0
  last_error,           \* last_error, or Null (None)
  api_calls,            \* the outcomes of the calls of chat.completions.create
  sleeps,               \* the arguments of the calls of time.sleep
  generate_ret          \* what generate returned or raised, or Null

adapter == <<generate_pc, max_retries, retry_delay, attempt, last_error, api_calls,
             sleeps, generate_ret>>

AdapterOff ==
  /\ generate_pc = Null /\ max_retries = Null /\ retry_delay = Null /\ attempt = Null
  /\ last_error = Null /\ api_calls = Null /\ sleeps = Null /\ generate_ret = Null

pipelines == <<batch_run, video_loop, export, adapter>>

PipelinesOff == BatchOff /\ ChannelOff /\ ExportOff /\ AdapterOff

others == <<analysis, pipelines>>

vars == <<pc, status, error, pulling, sort_by, sleep, limit, upstream, arg, ret, others, ytinitialdata, data, continuations,
          total_comment_count, first_response, response, toolbar_states,
          comments, ci, events, fresh>>

\* The locals of the loop over the comments of a response.
page == <<toolbar_states, comments, ci>>

\* The state of the generator, its consumer and the estimator.
engine == <<pc, status, error, pulling, sort_by, sleep, limit, upstream, arg, ret,
            ytinitialdata, data, continuations, total_comment_count, first_response,
            response, page, events, fresh>>

Request(site, endpoint, answer) ==
  [e |-> "request", site |-> site, endpoint |-> endpoint, response |-> answer]
Yield(item) == [e |-> "yield", item |-> item]
Slept(seconds) == [e |-> "sleep", seconds |-> seconds]
IsSleep(ev) == ev.e = "sleep"
Marker(n) == [_total_count |-> n]

IsRequest(ev) == ev.e = "request"
IsYield(ev) == ev.e = "yield"
IsMarker(item) == "_total_count" \in DOMAIN item

Requests == SelectSeq(events, IsRequest)
\* The output sequence: the items yielded so far.
Output == [i \in 1..Len(SelectSeq(events, IsYield)) |-> SelectSeq(events, IsYield)[i].item]

\* The state after construction, whatever the consumer's limit is.
Constructed ==
  /\ pc = "start"
  /\ status = "running"
  /\ error = Null
  /\ pulling = FALSE
  /\ sort_by \in 0..MaxSortBy
  /\ sleep \in Delays
  /\ ytinitialdata \in InitialDatas
  /\ data = ytinitialdata
  /\ continuations = <<>>
  /\ total_comment_count = Null
  /\ first_response = Null
  /\ response = Null
  /\ toolbar_states = <<>>
  /\ comments = <<>>
  /\ ci = 1
  /\ events = <<>>
  /\ fresh = 0

\* A run of the generator: the estimator is not called on its own.
NoCall == arg = Null /\ ret = Null

\* Only the generator runs.
OthersOff == AnalysisOff /\ PipelinesOff

\* The consumer takes every item: limit is None.
Init == Constructed /\ limit = Null /\ upstream = "stable" /\ NoCall /\ OthersOff

\* The consumer is the limit wrapper of a pipeline with a limit L >= 1.
LimitedInit ==
  /\ Constructed /\ limit \in {Num(L) : L \in 1..MaxLimit} /\ upstream = "stable"
  /\ NoCall /\ OthersOff

\* The shape of the responses has changed upstream.
DriftInit == Constructed /\ limit = Null /\ upstream = "drifted" /\ NoCall /\ OthersOff

\* The answers the transport may give to the next request.
Answered ==
  IF upstream = "stable" THEN Answers(Len(Requests) + 1, fresh)
  ELSE DriftAnswers(Len(Requests) + 1, fresh)

\* The comments that the consumer has taken so far: the wrapper skips the marker.
Delivered == Len(SelectSeq(events, LAMBDA ev : IsYield(ev) /\ ~IsMarker(ev.item)))

\* A mutant of Pull: the wrapper goes on pulling after its limit.
PullUnlimited ==
  /\ status = "running"
  /\ ~pulling
  /\ pulling' = TRUE
  /\ UNCHANGED <<pc, status, error, sort_by, sleep, limit, upstream, arg, ret, others, ytinitialdata, data, continuations,
                 total_comment_count, first_response, response, page, events, fresh>>

\* The consumer calls next() on the generator: the pipeline once for the first item,
\* then its wrapper limited() in a for loop that breaks when count >= limit.
Pull ==
  /\ status = "running"
  /\ ~pulling
  /\ IF limit = Null THEN TRUE ELSE Delivered < limit.n
  /\ pulling' = TRUE
  /\ UNCHANGED <<pc, status, error, sort_by, sleep, limit, upstream, arg, ret, others, ytinitialdata, data, continuations, total_comment_count,
                 first_response, response, page, events, fresh>>

\* The generator runs only inside next().
Running(at) == status = "running" /\ pulling /\ pc = at

\* return: the generator is exhausted, next() raises StopIteration.
Return ==
  /\ status' = "returned"
  /\ pc' = "done"
  /\ pulling' = FALSE
  /\ UNCHANGED error

\* A mutant of BreakLoop: continue, the while loop goes on with the next continuation.
BreakContinues ==
  /\ pc' = "loop"
  /\ UNCHANGED <<status, error, pulling>>

\* lines 277-278: break leaves the while loop, and the function ends after it.
BreakLoop == Return

\* raise: the exception leaves the generator through next().
Throw(exception) ==
  /\ status' = "raised"
  /\ error' = exception
  /\ pc' = "done"
  /\ pulling' = FALSE

\* yield: the item is handed to the consumer and the generator is suspended.
Emit(item) ==
  /\ events' = Append(events, Yield(item))
  /\ pulling' = FALSE
  /\ UNCHANGED <<status, error>>

\* ajax_request: the transport answers the request; retries are its own affair.
Transport(site, endpoint, answer) ==
  /\ answer.tokens <= MaxFresh - fresh
  /\ fresh' = fresh + answer.tokens
  /\ events' = Append(events, Request(site, endpoint, answer.response))

\* lines 184-202: the page is loaded; comments disabled, or the sort menu is looked up.
Start ==
  /\ Running("start")
  /\ IF ~Truthy(Renderer(data))
     THEN Return /\ UNCHANGED data
     ELSE /\ UNCHANGED <<status, error, pulling>>
          /\ IF Len(SubMenuItems(data)) > 0
             THEN pc' = "sort" /\ UNCHANGED data
             ELSE IF Len(SectionListContinuations(data)) > 0
                  THEN pc' = "fallback" /\ UNCHANGED data
                  ELSE pc' = "sort" /\ data' = EmptyDict
  /\ UNCHANGED <<sort_by, sleep, limit, upstream, arg, ret, others, ytinitialdata, continuations, total_comment_count,
                 first_response, response, page, events, fresh>>

\* A mutant of Fallback: the request is issued, but the submenu is looked for in the
\* initial data again and not in the response.
FallbackKeepsData ==
  /\ Running("fallback")
  /\ \E answer \in Answered :
       Transport("fallback", SectionListContinuations(data)[1], answer)
  /\ pc' = "sort"
  /\ UNCHANGED <<status, error, pulling, sort_by, sleep, limit, upstream, arg, ret, others, ytinitialdata, data, continuations,
                 total_comment_count, first_response, response, page>>

\* line 203: the request of a community post; its response replaces data.
Fallback ==
  /\ Running("fallback")
  /\ \E answer \in Answered :
       /\ Transport("fallback", SectionListContinuations(data)[1], answer)
       /\ data' = answer.response
  /\ pc' = "sort"
  /\ UNCHANGED <<status, error, pulling, sort_by, sleep, limit, upstream, arg, ret, others, ytinitialdata, continuations,
                 total_comment_count, first_response, response, page>>

\* lines 204-210: the sort menu is chosen from, the queue seeded, the count estimated.
SetSorting ==
  /\ Running("sort")
  /\ \E sort_menu \in {SubMenuItems(data)} :
       IF Len(sort_menu) = 0 \/ sort_by >= Len(sort_menu)
          THEN /\ Throw(RaiseMsg("RuntimeError", FAILED_TO_SET_SORTING))
               /\ UNCHANGED <<continuations, total_comment_count>>
       ELSE IF ~HasKey(sort_menu[sort_by + 1], "serviceEndpoint")
          THEN /\ Throw(Raise("KeyError"))
               /\ UNCHANGED <<continuations, total_comment_count>>
       ELSE \E count \in {_extract_comment_count(data)} :
              /\ continuations' = <<Lookup(sort_menu[sort_by + 1], "serviceEndpoint")>>
              /\ IF Raises(count)
                 THEN Throw(count) /\ UNCHANGED total_comment_count
                 ELSE /\ total_comment_count' = count
                      /\ pc' = "first_req"
                      /\ UNCHANGED <<status, error, pulling>>
  /\ UNCHANGED <<sort_by, sleep, limit, upstream, arg, ret, others, ytinitialdata, data, first_response, response, page, events, fresh>>

\* lines 213-224: the first request, for continuations[0].  A truthy response may
\* supply the count and takes the seed off the queue; a falsy one leaves it there.
FirstRequest ==
  /\ Running("first_req")
  /\ \E answer \in Answered :
       /\ Transport("first", continuations[1], answer)
       /\ IF ~Truthy(answer.response)
          THEN /\ first_response' = Null
               /\ continuations' = AfterFirst(continuations, FALSE)
               /\ pc' = "marker"
               /\ UNCHANGED <<status, error, pulling, total_comment_count>>
          ELSE \E count \in {CountAfterFirst(total_comment_count, answer.response)} :
                 /\ first_response' = answer.response
                 /\ IF Raises(count)
                    THEN Throw(count) /\ UNCHANGED <<continuations, total_comment_count>>
                    ELSE /\ total_comment_count' = count
                         /\ continuations' = AfterFirst(continuations, TRUE)
                         /\ pc' = "marker"
                         /\ UNCHANGED <<status, error, pulling>>
  /\ UNCHANGED <<sort_by, sleep, limit, upstream, arg, ret, others, ytinitialdata, data, response, page>>

\* A mutant of YieldMarker: the generator does not move on after the yield, as if
\* the "marker not yet emitted" phase were never left.
YieldMarkerAgain ==
  /\ Running("marker")
  /\ total_comment_count # Null
  /\ Emit(Marker(total_comment_count.n))
  /\ UNCHANGED <<pc, sort_by, sleep, limit, upstream, arg, ret, others, ytinitialdata, data, continuations, total_comment_count,
                 first_response, response, page, fresh>>

\* lines 227-228: the total count, if there is one, is yielded.
YieldMarker ==
  /\ Running("marker")
  /\ total_comment_count # Null
  /\ Emit(Marker(total_comment_count.n))
  /\ pc' = "first"
  /\ UNCHANGED <<sort_by, sleep, limit, upstream, arg, ret, others, ytinitialdata, data, continuations, total_comment_count, first_response,
                 response, page, fresh>>

\* A mutant of SkipMarker: the marker is also left out when the first request
\* returned falsy.
SkipMarkerWhenUnanswered ==
  /\ Running("marker")
  /\ total_comment_count = Null \/ ~Truthy(first_response)
  /\ pc' = "first"
  /\ UNCHANGED <<status, error, pulling, sort_by, sleep, limit, upstream, arg, ret, others, ytinitialdata, data, continuations,
                 total_comment_count, first_response, response, page, events, fresh>>

\* line 227: there is no total count.
SkipMarker ==
  /\ Running("marker")
  /\ total_comment_count = Null
  /\ pc' = "first"
  /\ UNCHANGED <<status, error, pulling, sort_by, sleep, limit, upstream, arg, ret, others, ytinitialdata, data, continuations,
                 total_comment_count, first_response, response, page, events, fresh>>

\* lines 231-250: the first response, if there is one, is processed.
ProcessFirst ==
  /\ Running("first")
  /\ IF ~Truthy(first_response)
     THEN /\ pc' = "loop"
          /\ UNCHANGED <<status, error, pulling, continuations, page>>
     ELSE \E r \in {ProcessResponse(first_response, continuations)} :
             IF Raises(r)
             THEN Throw(r) /\ UNCHANGED <<continuations, page>>
             ELSE /\ continuations' = r.v.continuations
                  /\ toolbar_states' = r.v.toolbar_states
                  /\ comments' = r.v.comments
                  /\ ci' = 1
                  /\ pc' = "first_yield"
                  /\ UNCHANGED <<status, error, pulling>>
  /\ UNCHANGED <<sort_by, sleep, limit, upstream, arg, ret, others, ytinitialdata, data, total_comment_count, first_response, response,
                 events, fresh>>

\* A mutant of YieldNext: after a yield the generator goes on to the while loop,
\* leaving the rest of the comments behind.
YieldThenLoop ==
  /\ ci <= Len(comments)
  /\ \E c \in {ExtractComment(comments[ci], toolbar_states)} :
        IF Raises(c)
        THEN Throw(c) /\ UNCHANGED <<events, ci>>
        ELSE Emit(c.v) /\ ci' = ci + 1 /\ pc' = "loop"
  /\ UNCHANGED <<sort_by, sleep, limit, upstream, arg, ret, others, ytinitialdata, data, continuations, total_comment_count, first_response,
                 response, toolbar_states, comments, fresh>>

\* A mutant of YieldNext: a record that cannot be built is skipped.
YieldOrSkip ==
  /\ ci <= Len(comments)
  /\ \E c \in {ExtractComment(comments[ci], toolbar_states)} :
        IF Raises(c)
        THEN /\ ci' = ci + 1
             /\ UNCHANGED <<pc, status, error, pulling, events>>
        ELSE Emit(c.v) /\ ci' = ci + 1 /\ UNCHANGED pc
  /\ UNCHANGED <<sort_by, sleep, limit, upstream, arg, ret, others, ytinitialdata, data, continuations,
                 total_comment_count, first_response, response, toolbar_states,
                 comments, fresh>>

\* One turn of a loop over the comments: the Comment is built and yielded.
YieldNext ==
  /\ ci <= Len(comments)
  /\ \E c \in {ExtractComment(comments[ci], toolbar_states)} :
        IF Raises(c)
        THEN Throw(c) /\ UNCHANGED <<events, ci>>
        ELSE Emit(c.v) /\ ci' = ci + 1 /\ UNCHANGED pc
  /\ UNCHANGED <<sort_by, sleep, limit, upstream, arg, ret, others, ytinitialdata, data, continuations, total_comment_count, first_response,
                 response, toolbar_states, comments, fresh>>

\* A mutant of SleepNext: the while loop is entered without the sleep.
SleepSkipped ==
  /\ ci > Len(comments)
  /\ pc' = "loop"
  /\ UNCHANGED <<status, error, pulling, sort_by, sleep, limit, upstream, arg, ret, others, ytinitialdata, data, continuations,
                 total_comment_count, first_response, response, page, events, fresh>>

\* The loop over the comments is over: time.sleep(sleep), then the while loop.
SleepNext ==
  /\ ci > Len(comments)
  /\ events' = Append(events, Slept(sleep))
  /\ pc' = "loop"
  /\ UNCHANGED <<status, error, pulling, sort_by, sleep, limit, upstream, arg, ret, others, ytinitialdata, data, continuations,
                 total_comment_count, first_response, response, page, fresh>>

\* lines 251-270: the comments of the first response.
YieldFirst == Running("first_yield") /\ YieldNext

\* line 271.
SleepFirst == Running("first_yield") /\ SleepNext

\* line 273: the queue is empty, the generator returns.
LoopExit ==
  /\ Running("loop")
  /\ continuations = <<>>
  /\ Return
  /\ UNCHANGED <<sort_by, sleep, limit, upstream, arg, ret, others, ytinitialdata, data, continuations, total_comment_count, first_response,
                 response, page, events, fresh>>

\* lines 273-298: the back of the queue is popped and requested; a falsy response
\* breaks out of the loop, a truthy one is processed.
LoopRequest ==
  /\ Running("loop")
  /\ continuations # <<>>
  /\ \E answer \in Answered :
       /\ Transport("loop", Back(continuations), answer)
       /\ response' = answer.response
       /\ IF ~Truthy(answer.response)
          THEN BreakLoop /\ continuations' = Popped(continuations) /\ UNCHANGED page
          ELSE \E r \in {ProcessResponse(answer.response, Popped(continuations))} :
                 IF Raises(r)
                 THEN Throw(r) /\ continuations' = Popped(continuations) /\ UNCHANGED page
                 ELSE /\ continuations' = r.v.continuations
                      /\ toolbar_states' = r.v.toolbar_states
                      /\ comments' = r.v.comments
                      /\ ci' = 1
                      /\ pc' = "yield"
                      /\ UNCHANGED <<status, error, pulling>>
  /\ UNCHANGED <<sort_by, sleep, limit, upstream, arg, ret, others, ytinitialdata, data, total_comment_count, first_response>>

\* lines 299-318: the comments of a response of the while loop.
YieldComment == Running("yield") /\ YieldNext

\* line 319.
SleepPage == Running("yield") /\ SleepNext

Next ==
  \/ Pull
  \/ Start
  \/ Fallback
  \/ SetSorting
  \/ FirstRequest
  \/ YieldMarker
  \/ SkipMarker
  \/ ProcessFirst
  \/ YieldFirst
  \/ SleepFirst
  \/ LoopExit
  \/ LoopRequest
  \/ YieldComment
  \/ SleepPage

Spec == Init /\ [][Next]_vars

\* The runs under a pipeline whose wrapper stops after limit comments.
LimitedSpec == LimitedInit /\ [][Next]_vars

\* The runs against responses whose shape has changed.
DriftSpec == DriftInit /\ [][Next]_vars

\* The consumer keeps pulling, the transport answers every request, and a generator
\* that can take a step takes it.
FairSpec == Spec /\ WF_vars(Next)

(***************************************************************************)
(* The estimator called on its own, as a caller or a test would call it:   *)
(* _parse_comment_count on a string, _extract_comment_count on a blob.     *)
(* The strings are count texts as the page shows them, an integer part,    *)
(* decimals, a magnitude and the word, and texts that hold no digit.       *)
(* Their values stay below 2^31.                                           *)
(***************************************************************************)
IntParts == {<<"1">>, <<"4">>, <<"2", "8">>, <<"3", "2">>, <<"6", "4">>}
FracParts == {<<>>, <<".", "1">>, <<".", "2">>, <<".", "3">>, <<".", "6">>,
              <<".", "9">>, <<".", "0", "0", "5">>}
Magnitudes == {<<>>, <<"K">>, <<"k">>, <<"M">>}
Words == {<<>>, <<" ", "C", "o", "m", "m", "e", "n", "t", "s">>}
Billions == {<<"1">> \o f \o <<"B">> \o w : f \in FracParts, w \in Words}
OtherTexts ==
  {<<"2", "8", ",", "9", "9", "9">>,
   <<"1", ",", "2", "3", "4", ",", "5", "6", "7">>,
   <<"1", "2", " ", "C", "o", "m", "m", "e", "n", "t", "s">>,
   <<"1", " ", "c", "o", "m", "m", "e", "n", "t">>, <<"1", ".", "2", ".", "3">>,
   <<"a", "b", "o", "u", "t", " ", "1", ".", "5", "k">>, <<"1", "e", "3">>,
   <<"+", "7", ".", "5", "k">>, <<"-", "5">>}
DigitlessTexts ==
  {<<>>, <<"C", "o", "m", "m", "e", "n", "t", "s">>,
   <<"c", "o", "m", "m", "e", "n", "t">>, <<"k">>, <<"N", "/", "A">>,
   <<"n", "o", " ", "c", "o", "m", "m", "e", "n", "t", "s", " ", "y", "e", "t">>,
   <<"n", "a", "n">>, <<"i", "n", "f">>,
   <<"I", "n", "f", "i", "n", "i", "t", "y">>, <<"-", "i", "n", "f">>,
   <<"+", "i", "n", "f", "i", "n", "i", "t", "y">>,
   <<"i", "n", "f", " ", "c", "o", "m", "m", "e", "n", "t", "s">>,
   <<"i", "n", "f", "i", "n", "i", "t", "y", " ", "c", "o", "m", "m", "e", "n", "t">>,
   <<" ", "i", "n", "f", " ">>, <<".">>, <<"-">>,
   <<"K", " ", "c", "o", "m", "m", "e", "n", "t", "s">>}
CountStrings ==
  {i \o f \o s \o w : i \in IntParts, f \in FracParts, s \in Magnitudes, w \in Words}
    \cup Billions \cup OtherTexts \cup DigitlessTexts

\* A text of the page: its runs, or its simpleText when there is no run.
TextOf(runs, simple) ==
  Obj([i \in 1..(IF Len(runs) > 0 THEN 1 ELSE 0) |->
         KV("runs", Arr([j \in 1..Len(runs) |-> Obj(<<KV("text", Str(runs[j]))>>)]))]
      \o [i \in 1..(IF Len(simple) > 0 THEN 1 ELSE 0) |-> KV("simpleText", Str(simple))])

\* The count texts of one place of the page: none, one that does not parse, one
\* that reads 0, one whose first run parses, and one whose first run does not
\* parse and whose simpleText does.
CountTexts(good) ==
  {Null,
   TextOf(<<<<"C", "o", "m", "m", "e", "n", "t", "s">>>>, <<>>),
   TextOf(<<<<"0">>>>, <<>>),
   TextOf(<<good, <<"C", "o", "m", "m", "e", "n", "t", "s">>>>, <<>>),
   TextOf(<<<<"C", "o", "m", "m", "e", "n", "t", "s">>>>, good)}
TitleTexts ==
  {Null, TextOf(<<<<"C", "o", "m", "m", "e", "n", "t", "s">>, <<"4", "4", " ", "c", "o", "m", "m", "e", "n", "t", "s">>>>, <<>>), TextOf(<<>>, <<"4", "4", " ", "c", "o", "m", "m", "e", "n", "t", "s">>)}
CommentCounts == {Null, Num(7), Num(0), Str(<<"8">>), Str(<<"n", "/", "a">>)}
OtherTextNodes == {Null, TextOf(<<>>, <<"5", " ", "c", "o", "m", "m", "e", "n", "t", "s">>), TextOf(<<<<"0", " ", "c", "o", "m", "m", "e", "n", "t", "s">>, <<"5", " ", "c", "o", "m", "m", "e", "n", "t", "s">>>>, <<>>)}

\* The field key |-> v of a dict, or no field when v is Null.
Field(key, v) == IF v = Null THEN <<>> ELSE <<KV(key, v)>>

\* The data that the estimator is given: each place of a count is there or not.
CountBlobs ==
  {Obj(<<KV("header", Obj(
           Field("commentCountRenderer",
                 IF c1 = Null THEN Null ELSE Obj(<<KV("text", c1)>>))
           \o Field("headerRenderer",
                    IF c2 = Null THEN Null ELSE Obj(<<KV("countText", c2)>>))
           \o Field("commentsHeaderRenderer",
                    IF c3 = Null /\ title = Null THEN Null
                    ELSE Obj(Field("countText", c3) \o Field("title", title)))
           \o Field("commentCount", cc)
           \o Field("label", IF other = Null THEN Null ELSE Obj(<<KV("text", other)>>))))>>) :
     c1 \in CountTexts(<<"1", ".", "1", "K">>) \cup {TextOf(<<<<"i", "n", "f">>>>, <<>>)},
     c2 \in {Null, TextOf(<<>>, <<"2", "2", " ", "C", "o", "m", "m", "e", "n", "t", "s">>), TextOf(<<<<"0">>>>, <<>>)},
     c3 \in {Null, TextOf(<<<<"3", "3">>>>, <<>>), TextOf(<<<<"C", "o", "m", "m", "e", "n", "t", "s">>>>, <<>>)},
     title \in TitleTexts, cc \in CommentCounts, other \in OtherTextNodes}

\* The call has not returned.
Pending == [t |-> "pending"]

\* No generator runs; the estimator is about to be called with arg.
EstimatorInit ==
  /\ Constructed
  /\ sort_by = 0 /\ sleep = 1 /\ ytinitialdata = DataVideoNoCount
  /\ limit = Null /\ upstream = "stable"
  /\ arg \in {Str(s) : s \in CountStrings} \cup CountBlobs
  /\ ret = Pending
  /\ OthersOff

\* self._parse_comment_count(arg)
ParseCount ==
  /\ IsStr(arg)
  /\ ret = Pending
  /\ ret' = _parse_comment_count[arg.s]
  /\ UNCHANGED <<pc, status, error, pulling, sort_by, sleep, limit, upstream, arg, others,
                 ytinitialdata, data, continuations, total_comment_count,
                 first_response, response, page, events, fresh>>

\* self._extract_comment_count(arg)
ExtractCount ==
  /\ IsDict(arg)
  /\ ret = Pending
  /\ ret' = _extract_comment_count(arg)
  /\ UNCHANGED <<pc, status, error, pulling, sort_by, sleep, limit, upstream, arg, others,
                 ytinitialdata, data, continuations, total_comment_count,
                 first_response, response, page, events, fresh>>

EstimatorNext == ParseCount \/ ExtractCount

EstimatorSpec == EstimatorInit /\ [][EstimatorNext]_vars

(***************************************************************************)
(* run_analysis (ai/runner/analysis.py) with its checkpoint                *)
(* (ai/runner/checkpoint.py).  execute_task returns a result for every     *)
(* comment of the batch it is given, or raises TaskExecutionError.  A run  *)
(* that raised may be started again on the same job: it finds the          *)
(* checkpoint file that the earlier run left.                              *)
(***************************************************************************)
MaxComments == 3
MaxTasks == 2
MaxRuns == 2
BatchSizes == {1, 2, 6}
\* The ids of the first n comments of the input file, of the first n tasks of the job.
CommentIdsOf(n) == [i \in 1..n |-> <<"c", Digits[i + 1]>>]
TaskIdsOf(n) == [i \in 1..n |-> <<"t", Digits[i + 1]>>]

\* The generator and the estimator are not running.
Idle ==
  /\ Constructed
  /\ sort_by = 0 /\ sleep = 1 /\ ytinitialdata = DataVideoNoCount
  /\ limit = Null /\ upstream = "stable"
  /\ NoCall

\* An empty dict.
EmptyMap == [x \in {} |-> Null]

\* d with d[key] = value, for a dict d given as a function.
Put(d, key, value) ==
  [x \in DOMAIN d \cup {key} |-> IF x = key THEN value ELSE d[x]]

\* The set of the elements of a list.
SetOf(seq) == {seq[i] : i \in 1..Len(seq)}

\* list(dict.fromkeys(seq)): seq without its repetitions, the order kept.
Unique(seq) ==
  LET firsts == {i \in 1..Len(seq) : \A j \in 1..(i - 1) : seq[j] # seq[i]}
      nth[k \in 1..Cardinality(firsts)] ==
        CHOOSE i \in firsts : Cardinality({j \in firsts : j < i}) = k - 1
  IN [k \in 1..Cardinality(firsts) |-> seq[nth[k]]]

\* self.completed.get(task_id, [])
CompletedOf(completed, task_id) ==
  IF task_id \in DOMAIN completed THEN completed[task_id] ELSE <<>>

\* Checkpoint.mark_task_batch_complete: the completed map afterwards.
mark_task_batch_complete(completed, task_id, comment_ids) ==
  Put(completed, task_id, Unique(CompletedOf(completed, task_id) \o comment_ids))

\* Checkpoint.get_pending_comments
get_pending_comments(completed, task_id, all_comment_ids) ==
  SelectSeq(all_comment_ids, LAMBDA cid : cid \notin SetOf(CompletedOf(completed, task_id)))

\* split_into_batches, for a batch_size > 0.
split_into_batches(items, size) ==
  [b \in 1..((Len(items) + size - 1) \div size) |->
     SubSeq(items, (b - 1) * size + 1,
            IF b * size < Len(items) THEN b * size ELSE Len(items))]

\* lines 160-169: the batch size of a task is capped at 5.
EffectiveBatchSize == IF batch_size > 5 THEN 5 ELSE batch_size

\* What execute_task returns for a comment: the TaskResult of the task for it.
TaskResultOf(task_id, comment_id) == [task |-> task_id, comment |-> comment_id]

\* _merge_results_into_comments
_merge_results_into_comments(comment_ids, results) ==
  [i \in 1..Len(comment_ids) |->
     [id |-> comment_ids[i],
      results |-> [t \in {t \in DOMAIN results : comment_ids[i] \in DOMAIN results[t]} |->
                     results[t][comment_ids[i]]]]]

\* run_analysis is called for a job, with no checkpoint file in its directory.
AnalysisInit ==
  /\ Idle /\ PipelinesOff
  /\ run_pc = "load"
  /\ job_comments \in {CommentIdsOf(n) : n \in 0..MaxComments}
  /\ job_tasks \in {TaskIdsOf(n) : n \in 1..MaxTasks}
  /\ batch_size \in BatchSizes
  /\ checkpointing \in BOOLEAN
  /\ checkpoint = Null
  /\ checkpoint_file = Null
  /\ task_idx = 0
  /\ batches = <<>>
  /\ batch_idx = 0
  /\ task_results = EmptyMap
  /\ all_task_results = EmptyMap
  /\ analysis_result = Null
  /\ executed = <<>>
  /\ run_no = 1

\* lines 86-99: no comments, an empty result at once.
LoadComments ==
  /\ run_pc = "load"
  /\ IF job_comments = <<>>
     THEN run_pc' = "done" /\ analysis_result' = <<>>
     ELSE run_pc' = "checkpoint" /\ UNCHANGED analysis_result
  /\ UNCHANGED <<job_comments, job_tasks, batch_size, checkpointing, checkpoint,
                 checkpoint_file, task_idx, batches, batch_idx, task_results,
                 all_task_results, executed, run_no, engine, pipelines>>

\* lines 102-122: the checkpoint of the directory is loaded, or a new one is
\* created and saved.
LoadOrCreateCheckpoint ==
  /\ run_pc = "checkpoint"
  /\ IF ~checkpointing THEN UNCHANGED <<checkpoint, checkpoint_file>>
     ELSE IF checkpoint_file # Null
       THEN checkpoint' = checkpoint_file /\ UNCHANGED checkpoint_file
     ELSE checkpoint' = EmptyMap /\ checkpoint_file' = EmptyMap
  /\ run_pc' = "task"
  /\ task_idx' = 1
  /\ UNCHANGED <<job_comments, job_tasks, batch_size, checkpointing, batches, batch_idx,
                 task_results, all_task_results, analysis_result, executed, run_no,
                 engine, pipelines>>

\* The comments of a task when the checkpoint is not consulted.
CommentsToProcessAll(task_id) == job_comments

\* lines 143-157: the comments of the task that are still to be processed, and
\* whether the task is skipped ("continue").
CommentsToProcess(task_id) ==
  IF checkpoint = Null THEN job_comments
  ELSE With(get_pending_comments(checkpoint, task_id, job_comments), LAMBDA pending :
         IF Len(pending) < Len(job_comments)
         THEN SelectSeq(job_comments, LAMBDA c : c \in SetOf(pending))
         ELSE job_comments)

\* lines 138-174: the head of the loop over the tasks.
StartTask ==
  /\ run_pc = "task"
  /\ task_idx <= Len(job_tasks)
  /\ \E comments_to_process \in {CommentsToProcess(job_tasks[task_idx])} :
       IF comments_to_process = <<>>
       THEN /\ task_idx' = task_idx + 1
            /\ UNCHANGED <<run_pc, batches, batch_idx, task_results>>
       ELSE /\ batches' = split_into_batches(comments_to_process, EffectiveBatchSize)
            /\ batch_idx' = 1
            /\ task_results' = EmptyMap
            /\ run_pc' = "batch"
            /\ UNCHANGED task_idx
  /\ UNCHANGED <<job_comments, job_tasks, batch_size, checkpointing, checkpoint,
                 checkpoint_file, all_task_results, analysis_result, executed, run_no,
                 engine, pipelines>>

\* A call of execute_task, as the history keeps it.
Executed(task_id, batch, outcome) ==
  [run |-> run_no, task |-> task_id, batch |-> batch, outcome |-> outcome]

\* One batch, were the checkpoint marked before execute_task returns.
ExecuteBatchMarksFirst ==
  /\ run_pc = "batch"
  /\ batch_idx <= Len(batches)
  /\ \E outcome \in {"ok", "TaskExecutionError"} :
       /\ executed' = Append(executed, Executed(job_tasks[task_idx], batches[batch_idx], outcome))
       /\ IF outcome = "ok"
          THEN /\ task_results' =
                    [c \in DOMAIN task_results \cup SetOf(batches[batch_idx]) |->
                       IF c \in SetOf(batches[batch_idx])
                       THEN TaskResultOf(job_tasks[task_idx], c) ELSE task_results[c]]
               /\ IF checkpoint # Null
                  THEN /\ checkpoint' = mark_task_batch_complete(
                                          checkpoint, job_tasks[task_idx], batches[batch_idx])
                       /\ checkpoint_file' = checkpoint'
                  ELSE UNCHANGED <<checkpoint, checkpoint_file>>
               /\ batch_idx' = batch_idx + 1
               /\ UNCHANGED run_pc
          ELSE /\ run_pc' = "raised"
               /\ IF checkpoint # Null
                  THEN /\ checkpoint' = mark_task_batch_complete(
                                          checkpoint, job_tasks[task_idx], batches[batch_idx])
                       /\ checkpoint_file' = checkpoint'
                  ELSE UNCHANGED <<checkpoint, checkpoint_file>>
               /\ UNCHANGED <<task_results, batch_idx>>
  /\ UNCHANGED <<job_comments, job_tasks, batch_size, checkpointing, task_idx, batches,
                 all_task_results, analysis_result, run_no, engine, pipelines>>

\* lines 177-229: one batch.  execute_task returns, the results are kept and the
\* checkpoint is marked and saved; or it raises and run_analysis raises.
ExecuteBatch ==
  /\ run_pc = "batch"
  /\ batch_idx <= Len(batches)
  /\ \E outcome \in {"ok", "TaskExecutionError"} :
       /\ executed' = Append(executed, Executed(job_tasks[task_idx], batches[batch_idx], outcome))
       /\ IF outcome = "ok"
          THEN /\ task_results' =
                    [c \in DOMAIN task_results \cup SetOf(batches[batch_idx]) |->
                       IF c \in SetOf(batches[batch_idx])
                       THEN TaskResultOf(job_tasks[task_idx], c) ELSE task_results[c]]
               /\ IF checkpoint # Null
                  THEN /\ checkpoint' = mark_task_batch_complete(
                                          checkpoint, job_tasks[task_idx], batches[batch_idx])
                       /\ checkpoint_file' = checkpoint'
                  ELSE UNCHANGED <<checkpoint, checkpoint_file>>
               /\ batch_idx' = batch_idx + 1
               /\ UNCHANGED run_pc
          ELSE /\ run_pc' = "raised"
               /\ UNCHANGED <<task_results, checkpoint, checkpoint_file, batch_idx>>
  /\ UNCHANGED <<job_comments, job_tasks, batch_size, checkpointing, task_idx, batches,
                 all_task_results, analysis_result, run_no, engine, pipelines>>

\* lines 231-232: the batches of the task are done.
FinishTask ==
  /\ run_pc = "batch"
  /\ batch_idx > Len(batches)
  /\ all_task_results' = Put(all_task_results, job_tasks[task_idx], task_results)
  /\ task_idx' = task_idx + 1
  /\ run_pc' = "task"
  /\ UNCHANGED <<job_comments, job_tasks, batch_size, checkpointing, checkpoint,
                 checkpoint_file, batches, batch_idx, task_results, analysis_result,
                 executed, run_no, engine, pipelines>>

\* The return, were the checkpoint not deleted.
MergeKeepsCheckpoint ==
  /\ run_pc = "task"
  /\ task_idx > Len(job_tasks)
  /\ analysis_result' = _merge_results_into_comments(job_comments, all_task_results)
  /\ checkpoint_file' = checkpoint_file
  /\ run_pc' = "done"
  /\ UNCHANGED <<job_comments, job_tasks, batch_size, checkpointing, checkpoint, task_idx,
                 batches, batch_idx, task_results, all_task_results, executed, run_no,
                 engine, pipelines>>

\* lines 234-262: the results are merged, the checkpoint is deleted, the result is
\* returned.
MergeAndReturn ==
  /\ run_pc = "task"
  /\ task_idx > Len(job_tasks)
  /\ analysis_result' = _merge_results_into_comments(job_comments, all_task_results)
  /\ checkpoint_file' = IF checkpoint # Null THEN Null ELSE checkpoint_file
  /\ run_pc' = "done"
  /\ UNCHANGED <<job_comments, job_tasks, batch_size, checkpointing, checkpoint, task_idx,
                 batches, batch_idx, task_results, all_task_results, executed, run_no,
                 engine, pipelines>>

\* The user starts run_analysis again after a run that raised: same job, same
\* directory.
Rerun ==
  /\ run_pc = "raised"
  /\ run_no < MaxRuns
  /\ run_no' = run_no + 1
  /\ run_pc' = "load"
  /\ checkpoint' = Null
  /\ task_idx' = 0
  /\ batches' = <<>>
  /\ batch_idx' = 0
  /\ task_results' = EmptyMap
  /\ all_task_results' = EmptyMap
  /\ analysis_result' = Null
  /\ UNCHANGED <<job_comments, job_tasks, batch_size, checkpointing, checkpoint_file,
                 executed, engine, pipelines>>

AnalysisNext ==
  \/ LoadComments
  \/ LoadOrCreateCheckpoint
  \/ StartTask
  \/ ExecuteBatch
  \/ FinishTask
  \/ MergeAndReturn
  \/ Rerun

AnalysisSpec == AnalysisInit /\ [][AnalysisNext]_vars

(***************************************************************************)
(* run_batch: the channels of a file, one after the other                  *)
(* (pipelines/batch.py).  scrape_channel returns its ChannelStats, raises  *)
(* an Exception, or lets a KeyboardInterrupt through.                      *)
(***************************************************************************)
MaxChannels == 3
SleepsBetween == {0, 2}

ChannelsOf(n) == [i \in 1..n |-> <<"@", Digits[i + 1]>>]

\* models/batch.py: ChannelStats, as far as the report reads it.
ChannelStats(channel, stat) == [channel |-> channel, status |-> stat]

\* _create_batch_report, without the times and the sizes.
_create_batch_report(stats, all_channels) ==
  [channels_total |-> Len(all_channels),
   channels_ok |-> Cardinality({i \in 1..Len(stats) : stats[i].status = "ok"}),
   channels_failed |-> Len(stats) - Cardinality({i \in 1..Len(stats) : stats[i].status = "ok"}),
   stats |-> stats]

\* run_batch is called; nothing is read yet.
BatchInit ==
  /\ Idle /\ AnalysisOff /\ ChannelOff /\ ExportOff /\ AdapterOff
  /\ batch_pc = "parse"
  /\ channels = <<>>
  /\ fail_fast \in BOOLEAN
  /\ sleep_between \in SleepsBetween
  /\ channel_idx = 1
  /\ stats_list = <<>>
  /\ report_file = Null
  /\ batch_ret = Null
  /\ scraped = <<>>

\* lines 51-78: the file is parsed; no file and no channel are errors.
ParseChannels ==
  /\ batch_pc = "parse"
  /\ \/ /\ batch_pc' = "raised"
        /\ batch_ret' = Raise("FileNotFoundError")
        /\ UNCHANGED channels
     \/ \E n \in 0..MaxChannels :
          /\ channels' = ChannelsOf(n)
          /\ IF n = 0
             THEN batch_pc' = "raised" /\ batch_ret' = Raise("ValueError")
             ELSE batch_pc' = "channel" /\ UNCHANGED batch_ret
  /\ UNCHANGED <<fail_fast, sleep_between, channel_idx, stats_list, report_file,
                 scraped, engine, analysis, video_loop, export, adapter>>

\* What became of the try body for a channel, as the history keeps it.
Processed(channel_id, outcome) == [channel |-> channel_id, outcome |-> outcome]

\* A mutant of OnException: --fail-fast is not looked at.
OnExceptionGoesOn ==
  /\ stats_list' = Append(stats_list, ChannelStats(channels[channel_idx], "failed"))
  /\ channel_idx' = channel_idx + 1
  /\ UNCHANGED <<batch_pc, report_file, batch_ret>>

\* lines 125-144: the failure is recorded, and with fail_fast the loop is left.
OnException ==
  /\ stats_list' = Append(stats_list, ChannelStats(channels[channel_idx], "failed"))
  /\ IF fail_fast
     THEN batch_pc' = "report" /\ UNCHANGED channel_idx
     ELSE channel_idx' = channel_idx + 1 /\ UNCHANGED batch_pc
  /\ UNCHANGED <<report_file, batch_ret>>

\* A mutant of OnInterrupt: the partial report is written whatever was recorded.
OnInterruptAlwaysWrites(stats) ==
  /\ stats_list' = stats
  /\ report_file' = _create_batch_report(stats, channels)
  /\ batch_pc' = "returned"
  /\ batch_ret' = Null
  /\ UNCHANGED channel_idx

\* lines 113-123: the partial report is written if anything was recorded, and
\* None is returned.
OnInterrupt(stats) ==
  /\ stats_list' = stats
  /\ IF stats # <<>>
     THEN report_file' = _create_batch_report(stats, channels)
     ELSE UNCHANGED report_file
  /\ batch_pc' = "returned"
  /\ batch_ret' = Null
  /\ UNCHANGED channel_idx

\* lines 80-146: one turn of the for loop, the try statement with its handlers.
ProcessChannel ==
  /\ batch_pc = "channel"
  /\ channel_idx <= Len(channels)
  /\ \E outcome \in {"ok", "Exception", "KeyboardInterrupt", "KeyboardInterrupt in sleep"} :
       /\ outcome = "KeyboardInterrupt in sleep" =>
            (channel_idx < Len(channels) /\ sleep_between > 0)
       /\ scraped' = Append(scraped, Processed(channels[channel_idx], outcome))
       /\ CASE outcome = "ok" ->
                 /\ stats_list' = Append(stats_list, ChannelStats(channels[channel_idx], "ok"))
                 /\ channel_idx' = channel_idx + 1
                 /\ UNCHANGED <<batch_pc, report_file, batch_ret>>
            [] outcome = "Exception" -> OnException
            [] outcome = "KeyboardInterrupt" -> OnInterrupt(stats_list)
            [] outcome = "KeyboardInterrupt in sleep" ->
                 OnInterrupt(Append(stats_list, ChannelStats(channels[channel_idx], "ok")))
  /\ UNCHANGED <<channels, fail_fast, sleep_between, engine, analysis, video_loop, export,
                 adapter>>

\* lines 148-160: after the loop the report is made, written and returned.
WriteReport ==
  /\ \/ batch_pc = "report"
     \/ batch_pc = "channel" /\ channel_idx > Len(channels)
  /\ report_file' = _create_batch_report(stats_list, channels)
  /\ batch_ret' = _create_batch_report(stats_list, channels)
  /\ batch_pc' = "returned"
  /\ UNCHANGED <<channels, fail_fast, sleep_between, channel_idx, stats_list, scraped,
                 engine, analysis, video_loop, export, adapter>>

BatchNext == ParseChannels \/ ProcessChannel \/ WriteReport

BatchSpec == BatchInit /\ [][BatchNext]_vars

(***************************************************************************)
(* The loop over the videos of a channel: run of                           *)
(* pipelines/channel_comments.py and scrape_channel of                     *)
(* pipelines/scraper.py hold the same while loop.  The export of a video   *)
(* ends, raises an Exception, or is cut by Ctrl+C.                         *)
(***************************************************************************)
MaxVideos == 3
MaxInterrupts == 2

VideosOf(n) == [i \in 1..n |-> <<"v", Digits[i + 1]>>]

\* One of the two functions is called for a channel whose videos are listed.
ChannelInit ==
  /\ Idle /\ AnalysisOff /\ BatchOff /\ ExportOff /\ AdapterOff
  /\ loop_pc = "loop"
  /\ entry \in {"run", "scrape_channel"}
  /\ videos \in {VideosOf(n) : n \in 0..MaxVideos}
  /\ config_quiet \in BOOLEAN
  /\ entry = "run" => ~config_quiet
  /\ config_debug \in BOOLEAN
  /\ video_idx = 0
  /\ started = <<>>
  /\ interrupts = 0
  /\ loop_ret = Null

\* scraper.py lines 275-285, channel_comments.py lines 200-213: the handler of
\* KeyboardInterrupt.  scrape_channel asks only if not quiet; run returns where
\* scrape_channel raises again.  When the user declines, idx is left as it is.
OnKeyboardInterrupt(answer) ==
  /\ interrupts' = interrupts + 1
  /\ IF ~config_quiet /\ answer
     THEN IF entry = "run"
          THEN loop_pc' = "returned" /\ loop_ret' = Ok("cancelled")
          ELSE loop_pc' = "raised" /\ loop_ret' = Raise("KeyboardInterrupt")
     ELSE UNCHANGED <<loop_pc, loop_ret>>
  /\ UNCHANGED video_idx

\* scraper.py lines 173-285, channel_comments.py lines 113-213: one turn of the
\* while loop.  The export of videos[idx] is started; idx += 1 is reached when the
\* export ends or its Exception is swallowed.
ExportVideo ==
  /\ loop_pc = "loop"
  /\ video_idx < Len(videos)
  /\ started' = Append(started, videos[video_idx + 1])
  /\ \E outcome \in {"ok", "comments disabled", "Exception", "KeyboardInterrupt"} :
       CASE outcome \in {"ok", "comments disabled"} ->
              /\ video_idx' = video_idx + 1
              /\ UNCHANGED <<loop_pc, loop_ret, interrupts>>
         [] outcome = "Exception" ->
              /\ IF config_debug
                 THEN loop_pc' = "raised" /\ loop_ret' = Raise("Exception")
                      /\ UNCHANGED video_idx
                 ELSE video_idx' = video_idx + 1 /\ UNCHANGED <<loop_pc, loop_ret>>
              /\ UNCHANGED interrupts
         [] outcome = "KeyboardInterrupt" ->
              /\ interrupts < MaxInterrupts
              /\ \E answer \in BOOLEAN : OnKeyboardInterrupt(answer)
  /\ UNCHANGED <<entry, videos, config_quiet, config_debug, engine, analysis, batch_run,
                 export, adapter>>

\* The while loop ends and the function returns.
FinishChannel ==
  /\ loop_pc = "loop"
  /\ video_idx >= Len(videos)
  /\ loop_pc' = "returned"
  /\ loop_ret' = Ok("done")
  /\ UNCHANGED <<entry, videos, config_quiet, config_debug, video_idx, started,
                 interrupts, engine, analysis, batch_run, export, adapter>>

ChannelNext == ExportVideo \/ FinishChannel

ChannelSpec == ChannelInit /\ [][ChannelNext]_vars

(***************************************************************************)
(* handle_error: from an exception to the exit code of the command         *)
(* (errors.py).  A class is its name, the text of str(type(error)) and the *)
(* names of the classes it derives from, itself included.                  *)
(***************************************************************************)
EXIT_SUCCESS == 0
EXIT_USER_ERROR == 1
EXIT_NETWORK_ERROR == 2
EXIT_INTERNAL_ERROR == 3

\* Classes of the language, of the libraries and of the repository.
Classes ==
  {[name |-> "KeyError",
    repr |-> <<"<", "c", "l", "a", "s", "s", " ", "'", "K", "e", "y", "E", "r", "r", "o", "r", "'", ">">>,
    mro |-> {"KeyError", "LookupError", "Exception"}],
   [name |-> "AttributeError",
    repr |-> <<"<", "c", "l", "a", "s", "s", " ", "'", "A", "t", "t", "r", "i", "b", "u", "t", "e", "E", "r", "r", "o", "r", "'", ">">>,
    mro |-> {"AttributeError", "Exception"}],
   [name |-> "KeyboardInterrupt",
    repr |-> <<"<", "c", "l", "a", "s", "s", " ", "'", "K", "e", "y", "b", "o", "a", "r", "d", "I", "n", "t", "e", "r", "r", "u", "p", "t", "'", ">">>,
    mro |-> {"KeyboardInterrupt"}],
   [name |-> "FileNotFoundError",
    repr |-> <<"<", "c", "l", "a", "s", "s", " ", "'", "F", "i", "l", "e", "N", "o", "t", "F", "o", "u", "n", "d", "E", "r", "r", "o", "r", "'", ">">>,
    mro |-> {"FileNotFoundError", "OSError", "Exception"}],
   [name |-> "PermissionError",
    repr |-> <<"<", "c", "l", "a", "s", "s", " ", "'", "P", "e", "r", "m", "i", "s", "s", "i", "o", "n", "E", "r", "r", "o", "r", "'", ">">>,
    mro |-> {"PermissionError", "OSError", "Exception"}],
   [name |-> "ValueError",
    repr |-> <<"<", "c", "l", "a", "s", "s", " ", "'", "V", "a", "l", "u", "e", "E", "r", "r", "o", "r", "'", ">">>,
    mro |-> {"ValueError", "Exception"}],
   [name |-> "IndexError",
    repr |-> <<"<", "c", "l", "a", "s", "s", " ", "'", "I", "n", "d", "e", "x", "E", "r", "r", "o", "r", "'", ">">>,
    mro |-> {"IndexError", "LookupError", "Exception"}],
   [name |-> "FrozenInstanceError",
    repr |-> <<"<", "c", "l", "a", "s", "s", " ", "'", "d", "a", "t", "a", "c", "l", "a", "s", "s", "e", "s", ".", "F", "r", "o", "z", "e", "n", "I", "n", "s", "t", "a", "n", "c", "e", "E", "r", "r", "o", "r", "'", ">">>,
    mro |-> {"FrozenInstanceError", "AttributeError", "Exception"}],
   [name |-> "ArrowKeyError",
    repr |-> <<"<", "c", "l", "a", "s", "s", " ", "'", "p", "y", "a", "r", "r", "o", "w", ".", "l", "i", "b", ".", "A", "r", "r", "o", "w", "K", "e", "y", "E", "r", "r", "o", "r", "'", ">">>,
    mro |-> {"ArrowKeyError", "KeyError", "LookupError", "ArrowException", "Exception"}],
   [name |-> "ModelError",
    repr |-> <<"<", "c", "l", "a", "s", "s", " ", "'", "y", "t", "c", "e", ".", "a", "i", ".", "m", "o", "d", "e", "l", "s", ".", "e", "r", "r", "o", "r", "s", ".", "M", "o", "d", "e", "l", "E", "r", "r", "o", "r", "'", ">">>,
    mro |-> {"ModelError", "Exception"}],
   [name |-> "YtceError",
    repr |-> <<"<", "c", "l", "a", "s", "s", " ", "'", "y", "t", "c", "e", ".", "e", "r", "r", "o", "r", "s", ".", "Y", "t", "c", "e", "E", "r", "r", "o", "r", "'", ">">>,
    mro |-> {"YtceError", "Exception"}],
   [name |-> "UserError",
    repr |-> <<"<", "c", "l", "a", "s", "s", " ", "'", "y", "t", "c", "e", ".", "e", "r", "r", "o", "r", "s", ".", "U", "s", "e", "r", "E", "r", "r", "o", "r", "'", ">">>,
    mro |-> {"UserError", "YtceError", "Exception"}],
   [name |-> "NetworkError",
    repr |-> <<"<", "c", "l", "a", "s", "s", " ", "'", "y", "t", "c", "e", ".", "e", "r", "r", "o", "r", "s", ".", "N", "e", "t", "w", "o", "r", "k", "E", "r", "r", "o", "r", "'", ">">>,
    mro |-> {"NetworkError", "YtceError", "Exception"}],
   [name |-> "InternalError",
    repr |-> <<"<", "c", "l", "a", "s", "s", " ", "'", "y", "t", "c", "e", ".", "e", "r", "r", "o", "r", "s", ".", "I", "n", "t", "e", "r", "n", "a", "l", "E", "r", "r", "o", "r", "'", ">">>,
    mro |-> {"InternalError", "YtceError", "Exception"}]}

\* isinstance(error, cls)
IsInstance(err, cls) == cls \in err.cls.mro

\* lines 15-41: the attribute exit_code of the class of a YtceError.
ExitCodeOf(cls) ==
  IF "UserError" \in cls.mro THEN EXIT_USER_ERROR
  ELSE IF "NetworkError" \in cls.mro THEN EXIT_NETWORK_ERROR
  ELSE EXIT_INTERNAL_ERROR

\* The exceptions handed to handle_error: an instance of a class with its message,
\* and the hint of a YtceError.
Errors ==
  {[cls |-> c, message |-> t, hint |-> h] :
     c \in Classes, t \in {<<>>, <<"x">>}, h \in {Null, Str(<<>>), Str(<<"h">>)}}

ErrorCalls ==
  {[t |-> "handle_error", error |-> e, debug |-> d] :
     e \in {e \in Errors : e.hint = Null \/ "YtceError" \in e.cls.mro}, d \in BOOLEAN}

\* lines 44-95.  What is printed is left out.
handle_error(err, debug) ==
  IF IsInstance(err, "YtceError") THEN Num(ExitCodeOf(err.cls))
  ELSE IF IsInstance(err, "KeyboardInterrupt") THEN Num(EXIT_USER_ERROR)
  ELSE IF IsInstance(err, "FileNotFoundError") THEN Num(EXIT_USER_ERROR)
  ELSE IF IsInstance(err, "PermissionError") THEN Num(EXIT_USER_ERROR)
  ELSE IF \/ Contains(err.cls.repr, <<"K", "e", "y", "E", "r", "r", "o", "r">>)
          \/ Contains(err.cls.repr, <<"A", "t", "t", "r", "i", "b", "u", "t", "e",
                                      "E", "r", "r", "o", "r">>)
       THEN Num(EXIT_NETWORK_ERROR)
  ELSE Num(EXIT_INTERNAL_ERROR)

\* No generator runs; handle_error is about to be called with arg.
ExitInit ==
  /\ Constructed
  /\ sort_by = 0 /\ sleep = 1 /\ ytinitialdata = DataVideoNoCount
  /\ limit = Null /\ upstream = "stable"
  /\ arg \in ErrorCalls
  /\ ret = Pending
  /\ OthersOff

\* handle_error(arg.error, arg.debug)
HandleError ==
  /\ ret = Pending
  /\ ret' = handle_error(arg.error, arg.debug)
  /\ UNCHANGED <<pc, status, error, pulling, sort_by, sleep, limit, upstream, arg, others,
                 ytinitialdata, data, continuations, total_comment_count,
                 first_response, response, page, events, fresh>>

ExitNext == HandleError

ExitSpec == ExitInit /\ [][ExitNext]_vars

(***************************************************************************)
(* The export of the comments of one video: the first pull, the wrapper    *)
(* limited() and write_jsonl (pipelines/video_comments.py,                 *)
(* pipelines/scraper.py, storage/writers.py).                              *)
(***************************************************************************)
MaxItems == 3
MaxExportLimit == 3

\* A comment as the generator yields it, and the record made of it.
CommentOf(i) == [cid |-> <<"c", Digits[i + 1]>>]
RecordOf(c) == [cid |-> c.cid, scraped_at |-> "scraped_at", source |-> "ytce"]

\* What get_comments yields: the marker first, if there is one, then the comments.
EngineOutputs ==
  {marker \o [i \in 1..n |-> CommentOf(i)] :
     marker \in {<<>>, <<Marker(5)>>}, n \in 0..MaxItems}

\* The comments among items, in order.
CommentsOf(items) == SelectSeq(items, LAMBDA item : ~IsMarker(item))

\* The export of a video starts: limit is None or an integer >= 0.
ExportInit ==
  /\ Idle /\ AnalysisOff /\ BatchOff /\ ChannelOff /\ AdapterOff
  /\ export_pc = "first"
  /\ source_items \in EngineOutputs
  /\ gen = source_items
  /\ per_video_limit \in {Null} \cup {Num(n) : n \in 0..MaxExportLimit}
  /\ first_item = Null
  /\ limited_count = 0
  /\ written = <<>>
  /\ wrote = Null

\* _prepend_item(gen, item)
PutBack(item, rest) == <<item>> \o rest

\* video_comments.py lines 29-43, scraper.py lines 187-199: the first item is
\* pulled; a marker is kept out, anything else is put back before gen.
PullFirst ==
  /\ export_pc = "first"
  /\ IF gen = <<>>
     THEN first_item' = Null /\ UNCHANGED gen
     ELSE /\ first_item' = Head(gen)
          /\ gen' = IF IsMarker(Head(gen)) THEN Tail(gen)
                    ELSE PutBack(Head(gen), Tail(gen))
  /\ export_pc' = "write"
  /\ UNCHANGED <<source_items, per_video_limit, limited_count, written, wrote, engine,
                 analysis, batch_run, video_loop, adapter>>

\* limited() stands at its yield: the record is written and count is not yet
\* incremented.
AtYield == Len(written) = limited_count + 1

\* The items of gen from the first one that is not a marker ("continue").
RECURSIVE SkipMarkers(_)
SkipMarkers(items) ==
  IF items = <<>> THEN <<>>
  ELSE IF IsMarker(Head(items)) THEN SkipMarkers(Tail(items))
  ELSE items

\* writers.py lines 28-33, one turn of 'for item in items', which resumes limited()
\* (video_comments.py lines 48-62, scraper.py lines 210-221): after a yield count
\* is incremented and compared with the limit; then the next comment of gen is
\* yielded and written.  When limited() ends, write_jsonl returns its count.
WriteItem ==
  /\ export_pc = "write"
  /\ \E count \in {IF AtYield THEN limited_count + 1 ELSE limited_count} :
       /\ limited_count' = count
       /\ IF AtYield /\ (IF per_video_limit = Null THEN FALSE
                         ELSE count >= per_video_limit.n)
          THEN /\ export_pc' = "done"
               /\ wrote' = Len(written)
               /\ UNCHANGED <<gen, written>>
          ELSE IF SkipMarkers(gen) = <<>>
          THEN /\ export_pc' = "done"
               /\ wrote' = Len(written)
               /\ gen' = <<>>
               /\ UNCHANGED written
          ELSE /\ written' = Append(written, RecordOf(Head(SkipMarkers(gen))))
               /\ gen' = Tail(SkipMarkers(gen))
               /\ UNCHANGED <<export_pc, wrote>>
  /\ UNCHANGED <<source_items, per_video_limit, first_item, engine, analysis, batch_run,
                 video_loop, adapter>>

ExportNext == PullFirst \/ WriteItem

ExportSpec == ExportInit /\ [][ExportNext]_vars

(***************************************************************************)
(* OpenAIAdapter.generate: the call of the API and its retries             *)
(* (ai/models/openai.py).  A call of chat.completions.create returns a     *)
(* response or raises; seconds are whole numbers.                          *)
(***************************************************************************)
MaxRetries == 2
RetryDelays == {1, 3}

\* An outcome of chat.completions.create: a response, or an exception of the
\* library with its status_code (Null: it has none).
Outcome(kind, status_code) == [kind |-> kind, status_code |-> status_code]

Outcomes ==
  {Outcome(k, Null) : k \in {"content", "empty choices", "None content",
                             "APITimeoutError", "APIConnectionError", "Exception"}}
    \cup {Outcome("RateLimitError", Num(429)), Outcome("AuthenticationError", Num(401))}
    \cup {Outcome("APIError", s) : s \in {Null, Num(400), Num(500), Num(503)}}

\* A generate call starts.  max_retries is any integer; below 0 no call is made.
AdapterInit ==
  /\ Idle /\ AnalysisOff /\ BatchOff /\ ChannelOff /\ ExportOff
  /\ generate_pc = "loop"
  /\ max_retries \in (0 - 1)..MaxRetries
  /\ retry_delay \in RetryDelays
  /\ attempt = 0
  /\ last_error = Null
  /\ api_calls = <<>>
  /\ sleeps = <<>>
  /\ generate_ret = Null

\* lines 132, 148, 163: delay = self.retry_delay * (2 ** attempt)
Delay(n) == retry_delay * Pow2[n]

\* raise: generate ends with the exception.
RaiseError(exception) ==
  /\ generate_pc' = "raised"
  /\ generate_ret' = Raise(exception)
  /\ UNCHANGED <<attempt, sleeps>>

\* time.sleep(delay); continue
SleepAndRetry ==
  /\ sleeps' = Append(sleeps, Delay(attempt))
  /\ attempt' = attempt + 1
  /\ UNCHANGED <<generate_pc, generate_ret>>

\* A mutant of OnAuthenticationError: the call is tried again.
OnAuthenticationErrorRetries ==
  IF attempt < max_retries
  THEN SleepAndRetry /\ UNCHANGED last_error
  ELSE RaiseError("ModelAuthenticationError") /\ UNCHANGED last_error

\* lines 137-141
OnAuthenticationError ==
  RaiseError("ModelAuthenticationError") /\ UNCHANGED last_error

\* lines 125-135 and 143-151: last_error is set; a retry if one is left.
OnTransient(exception) ==
  /\ last_error' = Str(exception)
  /\ IF attempt < max_retries THEN SleepAndRetry ELSE RaiseError(exception)

\* lines 153-172: a status of 500 and more is tried again if a retry is left.
OnAPIError(status_code) ==
  IF (IF status_code = Null THEN FALSE ELSE status_code.n # 0 /\ status_code.n >= 500)
       /\ attempt < max_retries
  THEN last_error' = Str("ModelAPIError") /\ SleepAndRetry
  ELSE RaiseError("ModelAPIError") /\ UNCHANGED last_error

\* lines 95-179: one turn of the for loop.  The ModelAPIError raised at lines 108
\* and 112 is caught at line 174 and raised as a ModelAPIError again.
CallAPI ==
  /\ generate_pc = "loop"
  /\ attempt <= max_retries
  /\ \E outcome \in Outcomes :
       /\ api_calls' = Append(api_calls, outcome)
       /\ CASE outcome.kind = "content" ->
                 /\ generate_pc' = "returned"
                 /\ generate_ret' = Ok("content")
                 /\ UNCHANGED <<attempt, sleeps, last_error>>
            [] outcome.kind = "RateLimitError" -> OnTransient("ModelRateLimitError")
            [] outcome.kind = "AuthenticationError" -> OnAuthenticationError
            [] outcome.kind = "APITimeoutError" -> OnTransient("ModelTimeoutError")
            [] outcome.kind \in {"APIError", "APIConnectionError"} ->
                 OnAPIError(outcome.status_code)
            [] outcome.kind \in {"empty choices", "None content", "Exception"} ->
                 RaiseError("ModelAPIError") /\ UNCHANGED last_error
  /\ UNCHANGED <<max_retries, retry_delay, engine, analysis, batch_run, video_loop,
                 export>>

\* lines 181-185: the for loop has ended without a return or a raise.
Exhausted ==
  /\ generate_pc = "loop"
  /\ attempt > max_retries
  /\ generate_pc' = "raised"
  /\ generate_ret' = IF last_error # Null THEN Raise(last_error.s)
                     ELSE Raise("ModelAPIError")
  /\ UNCHANGED <<max_retries, retry_delay, attempt, last_error, api_calls, sleeps,
                 engine, analysis, batch_run, video_loop, export>>

AdapterNext == CallAPI \/ Exhausted

\* The thread of generate keeps running, and a call of the API ends: the client
\* has a timeout (line 65).
AdapterSpec == AdapterInit /\ [][AdapterNext]_vars /\ WF_vars(AdapterNext)

(***************************************************************************)
(* Properties of a run.                                                    *)
(***************************************************************************)
\* The positions of the output sequence that hold a total-count marker.
MarkerPositions == {i \in 1..Len(Output) : IsMarker(Output[i])}

\* The run stands after the place where the marker is yielded (lines 227-228).
PastMarker == pc \in {"first", "first_yield", "loop", "yield"}
                \/ (pc = "done" /\ \E i \in 1..Len(events) :
                                     IsRequest(events[i]) /\ events[i].site = "first")

\* A total count can be derived: from data, or else from a truthy first response.
CountDerivable ==
  \/ IsNum(_extract_comment_count(data))
  \/ Truthy(first_response) /\ IsNum(_extract_comment_count(first_response))

\* C1: the total-count marker is yielded at most once and only as the very first
\* item of the output sequence; once the run is past the yield of the marker, the
\* marker has been yielded exactly once if a total count is derivable, and not at
\* all otherwise.
C1_MarkerFirstAndOnce ==
  /\ MarkerPositions \subseteq {1}
  /\ PastMarker => (MarkerPositions = {1} <=> CountDerivable)

\* C1, witness: a run that returned with the marker first and two comments after it.
C1_Witness ==
  /\ status = "returned"
  /\ Len(Output) >= 3
  /\ IsMarker(Output[1])
  /\ ~IsMarker(Output[2])

\* The first response holds an externalErrorMessage.
FirstResponseHasError ==
  Truthy(first_response) /\ Len(search_dict(first_response, "externalErrorMessage")) > 0

\* C2: when the response to the first request holds an externalErrorMessage, no
\* item, neither the marker nor a comment, is yielded before the error is raised.
C2_ErrorOnFirstYieldsNothing ==
  FirstResponseHasError => Output = <<>>

\* Comments are disabled: no itemSectionRenderer of the initial data holds a
\* continuationItemRenderer.
CommentsDisabled ==
  \A i \in 1..Len(search_dict(ytinitialdata, "itemSectionRenderer")) :
    search_dict(search_dict(ytinitialdata, "itemSectionRenderer")[i],
                "continuationItemRenderer") = <<>>

\* C3: with comments disabled the run yields nothing, issues no request and
\* raises nothing: its first step is to return.
C3_DisabledYieldsNothing ==
  CommentsDisabled =>
    /\ events = <<>>
    /\ status # "raised"
    /\ pc \in {"start", "done"}
    /\ pc = "done" => status = "returned"

\* C3, witness: a run over a page with comments disabled has returned.
C3_Witness ==
  CommentsDisabled /\ status = "returned" /\ events = <<>>

(***************************************************************************)
(* Sort selection and the requests of a run.                               *)
(***************************************************************************)
IsFallbackRequest(ev) == IsRequest(ev) /\ ev.site = "fallback"
\* A request of a continuation taken from the queue: the first one, or one of the loop.
IsPageRequest(ev) == IsRequest(ev) /\ ev.site \in {"first", "loop"}
IsFalsyRequest(ev) == IsRequest(ev) /\ ~Truthy(ev.response)
IsFalsyLoopRequest(ev) == IsFalsyRequest(ev) /\ ev.site = "loop"

FallbackRequests == SelectSeq(events, IsFallbackRequest)
PageRequests == SelectSeq(events, IsPageRequest)

CommentsEnabled == Truthy(Renderer(ytinitialdata))
MenuAbsent == SubMenuItems(ytinitialdata) = <<>>
PastDiscovery == pc \notin {"start", "fallback"}
PastSorting == pc \notin {"start", "fallback", "sort"}

\* The submenu that sort selection ends up with: the one of the initial data or,
\* when that is absent, the one of the response to the fallback request.
DiscoveredMenu ==
  IF ~MenuAbsent THEN SubMenuItems(ytinitialdata)
  ELSE IF FallbackRequests # <<>> THEN SubMenuItems(FallbackRequests[1].response)
  ELSE <<>>

SortingFails == DiscoveredMenu = <<>> \/ sort_by >= Len(DiscoveredMenu)

FailedToSetSorting ==
  status = "raised" /\ error = RaiseMsg("RuntimeError", FAILED_TO_SET_SORTING)

\* C4 as stated: with the submenu absent from the initial data, exactly one fallback
\* request is issued, against the first continuationEndpoint of the
\* sectionListRenderer; if the submenu is still absent, or the sort index is not
\* below its length, the run raises "Failed to set sorting", having yielded nothing
\* and requested no page of comments.
C4_OneFallbackWhenMenuAbsent ==
  CommentsEnabled =>
    /\ (MenuAbsent /\ PastDiscovery) =>
         /\ Len(FallbackRequests) = 1
         /\ FallbackRequests[1].endpoint = SectionListContinuations(ytinitialdata)[1]
    /\ (PastSorting /\ SortingFails) =>
         FailedToSetSorting /\ Output = <<>> /\ PageRequests = <<>>

\* C4, amended: there is at most one fallback request; it is issued exactly when the
\* submenu is absent from the initial data and the sectionListRenderer holds a
\* continuationEndpoint, it is the first thing the run does and goes to the first
\* such endpoint; without such an endpoint no request is issued.  The run raises
\* "Failed to set sorting" exactly when the submenu is still absent or the sort index
\* is not below its length, and then it has yielded nothing and requested no page.
C4_SortSelection ==
  /\ Len(FallbackRequests) <= 1
  /\ FallbackRequests # <<>> =>
       /\ MenuAbsent
       /\ events[1] = FallbackRequests[1]
       /\ SectionListContinuations(ytinitialdata) # <<>>
       /\ FallbackRequests[1].endpoint = SectionListContinuations(ytinitialdata)[1]
  /\ (CommentsEnabled /\ MenuAbsent /\ PastDiscovery
        /\ SectionListContinuations(ytinitialdata) # <<>>) => Len(FallbackRequests) = 1
  /\ (CommentsEnabled /\ PastSorting) => (SortingFails <=> FailedToSetSorting)
  /\ FailedToSetSorting => (Output = <<>> /\ PageRequests = <<>>)

\* C4, witness: the submenu was absent, the fallback request was answered with
\* something that has no submenu either, and the run raised.
C4_Witness ==
  /\ MenuAbsent
  /\ Len(FallbackRequests) = 1
  /\ Truthy(FallbackRequests[1].response)
  /\ DiscoveredMenu = <<>>
  /\ FailedToSetSorting

C6_FalsyEndsItemOnly ==
  (status = "returned" /\ \E i \in 1..Len(events) : IsFalsyRequest(events[i])
                                                     /\ IsPageRequest(events[i]))
    => continuations = <<>>

\* C6, amended: a falsy response to the first request does not abort the run, the
\* seed stays in the queue and is the next continuation requested; a falsy response
\* to a request of the loop ends the run at once and without an error, whatever is
\* still in the queue is not requested.
C6_FalsyFirstGoesOnFalsyLoopEnds ==
  /\ \A i \in 1..Len(PageRequests) :
       (PageRequests[i].site = "first" /\ ~Truthy(PageRequests[i].response)) =>
         IF Len(PageRequests) > i
         THEN /\ PageRequests[i + 1].site = "loop"
              /\ PageRequests[i + 1].endpoint = PageRequests[i].endpoint
         ELSE /\ status = "running"
              /\ continuations = <<PageRequests[i].endpoint>>
  /\ \A i \in 1..Len(events) :
       IsFalsyLoopRequest(events[i]) => (i = Len(events) /\ status = "returned")

\* C6, witness: a request of the loop returned falsy while the queue was not empty,
\* and the run has returned.
C6_Witness ==
  /\ status = "returned"
  /\ events # <<>>
  /\ IsFalsyLoopRequest(events[Len(events)])
  /\ continuations # <<>>

\* The run returned for one of its three reasons.
GracefulEnd ==
  \/ ~CommentsEnabled
  \/ continuations = <<>>
  \/ events # <<>> /\ IsFalsyLoopRequest(events[Len(events)])

\* C7 as stated: every run ends; it ends without raising exactly when the queue is
\* empty or a request has returned falsy: a run that returned has an empty queue or
\* a falsy response behind it, and a run with a falsy response behind it does not end
\* by raising; after the end nothing is yielded or requested.
C7_EndsGracefullyExactlyWhen ==
  /\ <>(status # "running")
  /\ [](status = "returned" =>
          (continuations = <<>> \/ \E i \in 1..Len(events) : IsFalsyRequest(events[i])))
  /\ []((\E i \in 1..Len(events) : IsFalsyRequest(events[i])) => status # "raised")
  /\ [][status # "running" => events' = events]_vars

\* C7, amended: every run ends; it ends without raising exactly when comments are
\* disabled, the loop finds the queue empty, or a request of the loop has returned
\* falsy (a falsy response to the fallback request or to the first request does not
\* end the run without an error); after the end nothing is yielded or requested.
C7_Termination ==
  /\ <>(status # "running")
  /\ [](status = "returned" => GracefulEnd)
  /\ [][(Running("loop") /\ continuations = <<>>) => status' = "returned"]_vars
  /\ [][(Len(events') > Len(events) /\ IsFalsyLoopRequest(events'[Len(events')]))
          => status' = "returned"]_vars
  /\ [][status # "running" => events' = events]_vars

\* C7, witness: a run of several pages has returned because its queue was empty.
C7_Witness ==
  /\ status = "returned"
  /\ continuations = <<>>
  /\ Len(PageRequests) >= 3
  /\ \A i \in 1..Len(events) : ~IsFalsyRequest(events[i])

(***************************************************************************)
(* The comments of a response and the order of the output.                 *)
(***************************************************************************)
IsCommentYield(ev) == IsYield(ev) /\ ~IsMarker(ev.item)

\* The cids of the comments yielded by the events lo .. hi, in order.
CidsYielded(lo, hi) ==
  LET yields == SelectSeq(SubSeq(events, lo, hi), IsCommentYield)
  IN [i \in 1..Len(yields) |-> yields[i].item.cid]

\* The comment ids that a response holds, last found first.  They are read off the
\* commentId fields, which lie in the commentEntityPayloads only.
CommentIds(resp) ==
  LET ids == search_dict(resp, "commentId")
  IN [i \in 1..Len(ids) |-> Chars(ids[Len(ids) + 1 - i])]

\* The index of the first request after event k, or Len(events) + 1.
NextRequestAfter(k) ==
  IF \E j \in (k + 1)..Len(events) : IsRequest(events[j])
  THEN CHOOSE j \in (k + 1)..Len(events) :
         /\ IsRequest(events[j])
         /\ \A i \in (k + 1)..(j - 1) : ~IsRequest(events[i])
  ELSE Len(events) + 1

IsPrefix(s, t) == Len(s) <= Len(t) /\ SubSeq(t, 1, Len(s)) = s

\* The run is through with the response to request k: it has issued a later
\* request, or stands at the head of the while loop, or has returned.
ThroughWith(k) ==
  NextRequestAfter(k) <= Len(events) \/ pc = "loop" \/ status = "returned"

\* C8: between a request and the next one the comments yielded are those of its
\* response, last found first, each once: a prefix of them while the response is
\* being yielded from, all of them once the run is through with it; no comment is
\* yielded before the first request, and none from the response to the fallback
\* request.
C8_ReverseOrderExactlyOnce ==
  /\ \A k \in 1..Len(events) :
       IsRequest(events[k]) =>
         LET got == CidsYielded(k + 1, NextRequestAfter(k) - 1)
             want == IF IsPageRequest(events[k]) THEN CommentIds(events[k].response)
                     ELSE <<>>
         IN /\ IsPrefix(got, want)
            /\ ThroughWith(k) => got = want
  /\ \A i \in 1..Len(events) :
       IsCommentYield(events[i]) => \E k \in 1..(i - 1) : IsPageRequest(events[k])

\* C8, witness: a run has returned after yielding the comments of a response with
\* three comments and those of a later response with two.
C8_Witness ==
  /\ status = "returned"
  /\ \E k, m \in 1..Len(events) :
       /\ k < m
       /\ IsPageRequest(events[k])
       /\ IsPageRequest(events[m])
       /\ Len(CommentIds(events[k].response)) = 3
       /\ Len(CommentIds(events[m].response)) = 2
       /\ CidsYielded(k + 1, NextRequestAfter(k) - 1) = CommentIds(events[k].response)

\* The continuations that a response holds: its continuationEndpoints and the
\* commands of its buttons.
QueuedFrom(resp) ==
  LET endpoints == search_dict(resp, "continuationEndpoint")
      buttons == search_dict(resp, "buttonRenderer")
  IN {endpoints[i] : i \in 1..Len(endpoints)}
       \cup {Lookup(buttons[i], "command") : i \in {j \in 1..Len(buttons) :
                                                      HasKey(buttons[j], "command")}}

\* C9: when a continuation that a response holds is requested, every comment of
\* that response has been yielded, last found first, and was yielded before any
\* request that followed the response.
C9_CommentsBeforeQueuedRequests ==
  \A q \in 1..Len(events) :
    IsPageRequest(events[q]) =>
      LET queued == QueuedFrom(events[q].response)
      IN (\E p \in (q + 1)..Len(events) :
            IsPageRequest(events[p]) /\ events[p].endpoint \in queued) =>
           CidsYielded(q + 1, NextRequestAfter(q) - 1) = CommentIds(events[q].response)

\* C9, witness: page 1 had 3 comments and a continuation of replies; the three were
\* yielded, last found first, and then, after the next page, the replies were
\* requested.
C9_Witness ==
  /\ Truthy(first_response)
  /\ Len(CommentIds(first_response)) = 3
  /\ \E q, p \in 1..Len(events) :
       /\ q < p
       /\ IsPageRequest(events[q])
       /\ events[q].site = "first"
       /\ IsPageRequest(events[p])
       /\ search_dict(first_response, "commentRepliesRenderer") # <<>>
       /\ events[p].endpoint
            \in QueuedFrom(search_dict(first_response, "commentRepliesRenderer")[1])
       /\ CidsYielded(q + 1, p - 1) = CommentIds(first_response)

(***************************************************************************)
(* The push discipline of the queue.                                       *)
(***************************************************************************)
\* The reload commands and append actions of a response.
ActionsOf(resp) ==
  LET reloads == search_dict(resp, "reloadContinuationItemsCommand")
      appends == search_dict(resp, "appendContinuationItemsAction")
  IN {reloads[i] : i \in 1..Len(reloads)} \cup {appends[i] : i \in 1..Len(appends)}

ItemsOf(action) ==
  LET items == Elems(Get(action, "continuationItems", Arr(<<>>)))
  IN {items[i] : i \in 1..Len(items)}

\* (a) the continuationEndpoints inside the items of the actions on a comments section.
FrontPushes(resp) ==
  UNION {UNION {{search_dict(item, "continuationEndpoint")[i] :
                   i \in 1..Len(search_dict(item, "continuationEndpoint"))} :
                item \in ItemsOf(action)} :
         action \in {a \in ActionsOf(resp) :
                       Chars(Lookup(a, "targetId")) \in
                         {COMMENTS_SECTION, PANEL_COMMENTS_SECTION,
                          SHORTS_PANEL_COMMENTS_SECTION}}}

\* (b) the button commands of the items with a continuationItemRenderer, of the
\* actions on the replies of a comment.
BackPushes(resp) ==
  UNION {{Lookup(search_dict(item, "buttonRenderer")[1], "command") :
            item \in {it \in ItemsOf(action) : HasKey(it, "continuationItemRenderer")}} :
         action \in {a \in ActionsOf(resp) :
                       StartsWith(Chars(Lookup(a, "targetId")), COMMENT_REPLIES_ITEM)}}

Range(seq) == {seq[i] : i \in 1..Len(seq)}

\* The queue `after` is the queue `before` with the pushes of resp: (a) in front of
\* it, (b) behind it.
PushedOnly(before, after, resp) ==
  LET nf == Cardinality(FrontPushes(resp))
      nb == Cardinality(BackPushes(resp))
  IN /\ Len(after) = nf + Len(before) + nb
     /\ Range(SubSeq(after, 1, nf)) = FrontPushes(resp)
     /\ SubSeq(after, nf + 1, nf + Len(before)) = before
     /\ Range(SubSeq(after, nf + Len(before) + 1, Len(after))) = BackPushes(resp)

\* C10: a step that processes a response (the first one, or the one to the
\* continuation just popped from the back) changes the queue only by the pushes (a)
\* at the front and (b) at the back: the entries that were in the queue stay,
\* in their order, between the two.
C10_QueuePushDiscipline ==
  [][/\ (pc = "first" /\ pc' = "first_yield") =>
          PushedOnly(continuations, continuations', first_response)
     /\ (pc = "loop" /\ pc' = "yield") =>
          PushedOnly(SubSeq(continuations, 1, Len(continuations) - 1), continuations',
                     response')]_vars

\* C10, witness: a response with pushes of both kinds was processed while the queue
\* held other entries, which are still there.
C10_Witness ==
  /\ pc = "yield"
  /\ FrontPushes(response) # {}
  /\ BackPushes(response) # {}
  /\ Len(continuations) > Cardinality(FrontPushes(response))
                            + Cardinality(BackPushes(response))

(***************************************************************************)
(* The order of the requests.                                              *)
(***************************************************************************)
\* The step issues a request from the given site.
Requesting(site) ==
  /\ Len(events') = Len(events) + 1
  /\ IsRequest(events'[Len(events')])
  /\ events'[Len(events')].site = site

\* C11: the first request of a page of comments is the first request of the
\* generator proper and goes to the serviceEndpoint of the submenu item at the sort
\* index, the only entry of the freshly seeded queue; every later request is issued
\* by the loop for the entry at the back of the queue at that moment; hence after a
\* response that pushed continuations of replies to the back, the next request is
\* for one of these, whatever else waits in the queue.
C11_RequestOrder ==
  /\ [](PageRequests # <<>> =>
          /\ PageRequests[1].site = "first"
          /\ sort_by < Len(DiscoveredMenu)
          /\ PageRequests[1].endpoint
               = Lookup(DiscoveredMenu[sort_by + 1], "serviceEndpoint")
          /\ \A i \in 2..Len(PageRequests) : PageRequests[i].site = "loop")
  /\ [](\A q \in 1..Len(events) :
          (/\ IsPageRequest(events[q])
           /\ BackPushes(events[q].response) # {}
           /\ NextRequestAfter(q) <= Len(events))
            => events[NextRequestAfter(q)].endpoint \in BackPushes(events[q].response))
  /\ [][Requesting("first") =>
          (continuations = <<events'[Len(events')].endpoint>>)]_vars
  /\ [][Requesting("loop") =>
          (/\ continuations # <<>>
           /\ events'[Len(events')].endpoint = continuations[Len(continuations)])]_vars

\* C11, witness: a response pushed a continuation of replies to the back and a
\* continuation of the section to the front; the next request was for the replies
\* while the other was still waiting.
C11_Witness ==
  \E q \in 1..Len(events) :
    /\ IsPageRequest(events[q])
    /\ BackPushes(events[q].response) # {}
    /\ FrontPushes(events[q].response) # {}
    /\ NextRequestAfter(q) = Len(events)
    /\ events[Len(events)].endpoint \in BackPushes(events[q].response)
    /\ \E i \in 1..Len(continuations) : continuations[i] \in FrontPushes(events[q].response)

(***************************************************************************)
(* Pacing.                                                                 *)
(***************************************************************************)
\* The sleeps among the events lo .. hi.
SleepsIn(lo, hi) == SelectSeq(SubSeq(events, lo, hi), IsSleep)

\* C12: between a request and the next one the engine sleeps at most once, and only
\* after a truthy response to a request of a queued continuation; the sleep is of
\* the caller's delay, it comes after all the comments of that response were
\* yielded and is the last thing before the next request; once the run is through
\* with such a response it has slept exactly once.  There is no sleep before the
\* first request, after the fallback request or after a falsy response.
C12_SleepOncePerProcessedResponse ==
  /\ \A i \in 1..Len(events) :
       IsSleep(events[i]) =>
         /\ events[i].seconds = sleep
         /\ \E k \in 1..(i - 1) : IsRequest(events[k])
  /\ \A k \in 1..Len(events) :
       IsRequest(events[k]) =>
         LET nxt == NextRequestAfter(k)
             n == Len(SleepsIn(k + 1, nxt - 1))
             processed == IsPageRequest(events[k]) /\ Truthy(events[k].response)
         IN /\ n <= 1
            /\ ~processed => n = 0
            /\ n = 1 =>
                 /\ IsSleep(events[nxt - 1])
                 /\ CidsYielded(k + 1, nxt - 2) = CommentIds(events[k].response)
            /\ (processed /\ ThroughWith(k)) => n = 1

\* C12, witness: the run slept after the three comments of the first page and
\* again after the comments of the next response, and a falsy response then ended
\* it without a sleep.
C12_Witness ==
  /\ status = "returned"
  /\ Len(events) >= 8
  /\ IsFalsyLoopRequest(events[Len(events)])
  /\ IsSleep(events[Len(events) - 1])
  /\ Len(SleepsIn(1, Len(events))) = 2
  /\ \E k \in 1..Len(events) :
       /\ IsPageRequest(events[k])
       /\ Len(CommentIds(events[k].response)) = 3
       /\ IsSleep(events[NextRequestAfter(k) - 1])

(***************************************************************************)
(* Pull-driven production and cancellation.                                *)
(***************************************************************************)
\* C13: the engine requests, sleeps and yields only inside a pull of the consumer,
\* and a yield ends the pull; while the consumer does not pull nothing happens.  A
\* wrapper with limit L takes at most L comments, and once the L-th comment has
\* been delivered it is the last event of the run: no request, no sleep and no
\* yield follow it.
C13_NoActivityWithoutPull ==
  /\ [][events' # events => pulling]_vars
  /\ [][(Len(events') > Len(events) /\ IsYield(events'[Len(events')])) => ~pulling']_vars
  /\ [](limit # Null =>
          /\ Delivered <= limit.n
          /\ Delivered = limit.n =>
               (~pulling /\ IsCommentYield(events[Len(events)])))
  /\ [][(limit # Null /\ Delivered = limit.n) => events' = events]_vars

\* C13, witness: the wrapper has taken its 2 comments out of a first page of 3,
\* which queued continuations; the generator is suspended and still running.
C13_Witness ==
  /\ limit = Num(2)
  /\ Delivered = 2
  /\ status = "running"
  /\ ~pulling
  /\ continuations # <<>>
  /\ ci <= Len(comments)
  /\ Len(PageRequests) = 1

(***************************************************************************)
(* The marker and the first request.                                       *)
(***************************************************************************)
\* The first request of a page of comments was issued and returned falsy.
FirstRequestFalsy ==
  PageRequests # <<>> /\ ~Truthy(PageRequests[1].response)

\* C14 as stated: in a run whose first request returns a falsy response no marker
\* is yielded.
C14_NoMarkerAfterFalsyFirst ==
  FirstRequestFalsy => MarkerPositions = {}

\* C14, amended: the marker is yielded only right after the first request, whether
\* that request succeeded or not, and never again; in a run whose first request
\* returns a falsy response the marker is yielded exactly when the estimator finds
\* a count in the data at hand before that request.
C14_MarkerRightAfterFirstRequest ==
  /\ \A i \in 1..Len(events) :
       (IsYield(events[i]) /\ IsMarker(events[i].item)) =>
         /\ i > 1
         /\ IsRequest(events[i - 1])
         /\ events[i - 1].site = "first"
         /\ events[i - 1] = PageRequests[1]
  /\ (FirstRequestFalsy /\ PastMarker) =>
       (MarkerPositions = {1} <=> IsNum(_extract_comment_count(data)))

\* C14, witness: the first request returned falsy, the marker was yielded all the
\* same, and the comments of the second response to the seed followed it.
C14_Witness ==
  /\ FirstRequestFalsy
  /\ Len(Output) >= 2
  /\ IsMarker(Output[1])
  /\ ~IsMarker(Output[2])
  /\ Len(PageRequests) >= 2
  /\ PageRequests[2].endpoint = PageRequests[1].endpoint

(***************************************************************************)
(* The value of the marker.                                                *)
(***************************************************************************)
\* The value of the marker that was yielded.
MarkerValue == Output[1]._total_count

DataAtHand ==
  IF ~MenuAbsent THEN ytinitialdata
  ELSE IF FallbackRequests # <<>> THEN FallbackRequests[1].response
  ELSE EmptyDict

RECURSIVE HasPath(_, _)
HasPath(x, path) ==
  /\ IsDict(x)
  /\ HasKey(x, path[1])
  /\ Len(path) = 1 \/ HasPath(Lookup(x, path[1]), Tail(path))

\* The commentEntityPayload has every required field, and resp holds a toolbar
\* state payload whose key is its toolbarStateKey.
Complete(comment, resp) ==
  /\ \A f \in 1..Len(RequiredPaths) : HasPath(comment, RequiredPaths[f])
  /\ \E i \in 1..Len(search_dict(resp, "engagementToolbarStateEntityPayload")) :
       Get(search_dict(resp, "engagementToolbarStateEntityPayload")[i], "key", Null)
         = Lookup(Lookup(comment, "properties"), "toolbarStateKey")

\* The positions, in the order of the yields, of the records of resp that are not
\* complete.
Incomplete(resp) ==
  LET found == Reverse(search_dict(resp, "commentEntityPayload"))
  IN {j \in 1..Len(found) : ~Complete(found[j], resp)}

Least(S) == CHOOSE j \in S : \A i \in S : j <= i

\* C16: when a response holds a record that lacks a required field or has no
\* toolbar state, the comments before it are yielded and then the run fails with
\* an error: the step that reaches the record raises and yields nothing, no comment
\* of that response at or after the record is ever yielded, nothing is requested
\* or slept afterwards, and the run does not return.
C16_IncompleteRecordIsFatal ==
  /\ [](\A k \in 1..Len(events) :
          (IsPageRequest(events[k]) /\ Incomplete(events[k].response) # {}) =>
            LET yielded == Len(SelectSeq(SubSeq(events, k + 1, Len(events)), IsCommentYield))
            IN /\ yielded < Least(Incomplete(events[k].response))
               /\ NextRequestAfter(k) > Len(events)
               /\ SleepsIn(k + 1, Len(events)) = <<>>
               /\ status # "returned"
               /\ status = "raised" =>
                    /\ error = Raise("KeyError")
                    /\ yielded = Least(Incomplete(events[k].response)) - 1)
  /\ [][(/\ status = "running"
          /\ pulling
          /\ pc \in {"first_yield", "yield"}
          /\ ci <= Len(comments)
          /\ ~Complete(comments[ci], IF pc = "yield" THEN response ELSE first_response))
           => (status' = "raised" /\ events' = events)]_vars

\* C16, witness: the response to a request of the loop held two records, the one
\* found first without its publishedTime; the other one was yielded, and the run
\* then raised KeyError.
C16_Witness ==
  /\ status = "raised"
  /\ error = Raise("KeyError")
  /\ Len(events) >= 2
  /\ IsCommentYield(events[Len(events)])
  /\ IsPageRequest(events[Len(events) - 1])
  /\ events[Len(events) - 1].site = "loop"
  /\ Incomplete(events[Len(events) - 1].response) = {2}
  /\ ~HasPath(search_dict(events[Len(events) - 1].response, "commentEntityPayload")[1],
              <<"properties", "publishedTime">>)

(***************************************************************************)
(* The derived fields of a Comment.                                        *)
(***************************************************************************)
\* The request whose response the yield at event i comes from.
LastRequestBefore(i) ==
  CHOOSE k \in 1..(i - 1) :
    IsRequest(events[k]) /\ \A j \in (k + 1)..(i - 1) : ~IsRequest(events[j])

\* The commentEntityPayload of resp whose commentId is cid.
PayloadOf(resp, cid) ==
  LET found == search_dict(resp, "commentEntityPayload")
  IN found[CHOOSE j \in 1..Len(found) :
             Lookup(Lookup(found[j], "properties"), "commentId") = Str(cid)]

\* s without the whitespace around it: from its first to its last character that
\* is not whitespace.
Trimmed(s) ==
  LET inked == {j \in 1..Len(s) : s[j] \notin {" ", "\t", "\n", "\r"}}
  IN IF inked = {} THEN <<>>
     ELSE SubSeq(s, CHOOSE lo \in inked : \A j \in inked : lo <= j,
                    CHOOSE hi \in inked : \A j \in inked : hi >= j)

\* The toolbar state of resp that the payload's toolbarStateKey refers to is hearted.
Hearted(resp, payload) ==
  LET states == search_dict(resp, "engagementToolbarStateEntityPayload")
      key == Lookup(Lookup(payload, "properties"), "toolbarStateKey")
      at == CHOOSE j \in 1..Len(states) :
              /\ Lookup(states[j], "key") = key
              /\ \A l \in (j + 1)..Len(states) : Lookup(states[l], "key") # key
  IN /\ HasKey(states[at], "heartState")
     /\ Lookup(states[at], "heartState")
          = Str(<<"T", "O", "O", "L", "B", "A", "R", "_", "H", "E", "A", "R", "T", "_",
                  "S", "T", "A", "T", "E", "_", "H", "E", "A", "R", "T", "E", "D">>)

\* C17: every Comment that is yielded has reply true iff its cid contains ".",
\* text_length equal to the number of characters of its text, votes equal to the
\* likeCountNotliked of its payload without the whitespace around it, or "0" when
\* nothing is left, and heart true iff the toolbar state that its payload refers to
\* has a heartState equal to the hearted sentinel.  Events are only ever appended,
\* so it is stated of the Comment yielded last, in every state.
C17_DerivedFields ==
  \A i \in {Len(events)} \ {0} :
    IsCommentYield(events[i]) =>
      LET item == events[i].item
          resp == events[LastRequestBefore(i)].response
          payload == PayloadOf(resp, item.cid)
          likes == Lookup(Lookup(payload, "toolbar"), "likeCountNotliked").s
      IN /\ item.reply <=> (\E j \in 1..Len(item.cid) : item.cid[j] = ".")
         /\ item.text = Lookup(Lookup(Lookup(payload, "properties"), "content"), "content").s
         /\ item.text_length = Len(item.text)
         /\ item.votes = IF Trimmed(likes) = <<>> THEN <<"0">> ELSE Trimmed(likes)
         /\ item.heart <=> Hearted(resp, payload)

\* C17, witness: a hearted top-level comment whose like count was blank was
\* yielded with votes "0", and a reply that is not hearted with votes "5".
C17_Witness ==
  /\ \E i \in 1..Len(Output) :
       /\ ~IsMarker(Output[i])
       /\ Output[i].votes = <<"0">>
       /\ Output[i].heart
       /\ ~Output[i].reply
       /\ Output[i].text_length = 3
  /\ \E i \in 1..Len(Output) :
       /\ ~IsMarker(Output[i])
       /\ Output[i].votes = <<"5">>
       /\ ~Output[i].heart
       /\ Output[i].reply

(***************************************************************************)
(* parse_count.                                                            *)
(***************************************************************************)
\* The string that is left of s: lower-cased, without the words comments and
\* comment, stripped.
Cleaned(s) ==
  Strip(Remove[Remove[Lower(s), <<"c", "o", "m", "m", "e", "n", "t", "s">>],
               <<"c", "o", "m", "m", "e", "n", "t">>])

\* The multiplier that the trailing suffix of a cleaned string stands for.
MultiplierOf(t) ==
  IF EndsWith(t, <<"k">>) THEN 1000
  ELSE IF EndsWith(t, <<"m">>) THEN 1000000
  ELSE IF EndsWith(t, <<"b">>) THEN 1000000000
  ELSE 1

\* A cleaned string without its one trailing suffix and without commas.
Remainder(t) ==
  Remove[IF MultiplierOf(t) > 1 THEN SubSeq(t, 1, Len(t) - 1) ELSE t, <<",">>]

\* r is a decimal number: digits, with at most one point among them.
IsDecimal(r) ==
  /\ AnyDigit(r)
  /\ \A i \in 1..Len(r) : IsDigit(r[i]) \/ (r[i] = "." /\ i = DotAt(r))

\* The integer part of the decimal number r times multiplier, in exact arithmetic.
TruncatedProduct(r, multiplier) ==
  LET digits == Remove[r, <<".">>]
      dec == IF DotAt(r) = 0 THEN 0 ELSE Len(r) - DotAt(r)
  IN IF Pow10[dec] <= multiplier
     THEN DigitsVal[digits] * (multiplier \div Pow10[dec])
     ELSE (DigitsVal[digits] * multiplier) \div Pow10[dec]

Parsed(s) == IsStr(arg) /\ arg.s = s /\ ret # Pending

\* C18: parse_count maps "28,999" to 28999, "28.9K" to 28900, "1.2M" to 1200000, ""
\* and "Comments" to unknown; in general the result is the decimal number that is left
\* when the words, one trailing k/m/b suffix and the commas are removed, times the
\* multiplier of the suffix, truncated to an integer.
C18_ParseCountTruncatedProduct ==
  /\ Parsed(<<"2", "8", ",", "9", "9", "9">>) => ret = Num(28999)
  /\ Parsed(<<"2", "8", ".", "9", "K">>) => ret = Num(28900)
  /\ Parsed(<<"1", ".", "2", "M">>) => ret = Num(1200000)
  /\ Parsed(<<>>) => ret = Null
  /\ Parsed(<<"C", "o", "m", "m", "e", "n", "t", "s">>) => ret = Null
  /\ (IsStr(arg) /\ ret # Pending /\ IsDecimal(Remainder(Cleaned(arg.s))))
       => ret = Num(TruncatedProduct(Remainder(Cleaned(arg.s)),
                                     MultiplierOf(Cleaned(arg.s))))

\* C19: parse_count returns unknown (None), and raises nothing, for every input string
\* that holds no digit at all.
C19_DigitlessIsUnknown ==
  (IsStr(arg) /\ ret # Pending /\ ~AnyDigit(arg.s)) => ret = Null

(***************************************************************************)
(* extract_total_count: the strategies, as the attempts they make to get a *)
(* count, in the order of their priority.  An attempt is what parse_count  *)
(* makes of one string, or a numeric commentCount itself.                  *)
(***************************************************************************)
\* The attempts on a text: its runs[0].text, then its simpleText.
TextAttempts(text) ==
  IF ~IsDict(text) THEN <<>>
  ELSE LET runs == Elems(Get(text, "runs", Arr(<<>>)))
           simple == Chars(Get(text, "simpleText", Str(<<>>)))
       IN (IF Len(runs) > 0
           THEN <<_parse_comment_count[Chars(Get(runs[1], "text", Str(<<>>)))]>>
           ELSE <<>>)
          \o (IF Len(simple) > 0 THEN <<_parse_comment_count[simple]>> ELSE <<>>)

\* The attempts on a title: the text of each of its runs, then its simpleText.
TitleAttempts(title) ==
  IF ~IsDict(title) THEN <<>>
  ELSE LET runs == Elems(Get(title, "runs", Arr(<<>>)))
           simple == Chars(Get(title, "simpleText", Str(<<>>)))
       IN [i \in 1..Len(runs) |->
             _parse_comment_count[Chars(Get(runs[i], "text", Str(<<>>)))]]
          \o (IF Len(simple) > 0 THEN <<_parse_comment_count[simple]>> ELSE <<>>)

\* The strings of a text node that hold a digit and the word comment.
ScanAttempts(text) ==
  IF ~IsDict(text) THEN <<>>
  ELSE LET runs == Elems(Get(text, "runs", Arr(<<>>)))
           simple == Chars(Get(text, "simpleText", Str(<<>>)))
           Counting(s) == AnyDigit(s) /\ Contains(Lower(s), <<"c", "o", "m", "m", "e", "n", "t">>)
           texts == SelectSeq([i \in 1..Len(runs) |-> Chars(Get(runs[i], "text", Str(<<>>)))]
                              \o <<simple>>, Counting)
       IN [i \in 1..Len(texts) |-> _parse_comment_count[texts[i]]]

RECURSIVE Flat(_)
Flat(seqs) == IF seqs = <<>> THEN <<>> ELSE Head(seqs) \o Flat(Tail(seqs))

\* The first value found under key in root, as a dict; an empty dict when none.
FirstUnder(root, key) == NextOr(search_dict(root, key), EmptyDict)

Strategy1(root) ==
  TextAttempts(Get(FirstUnder(root, "commentCountRenderer"), "text", Null))
Strategy2(root) ==
  TextAttempts(Get(FirstUnder(root, "headerRenderer"), "countText", Null))
Strategy3(root) ==
  TextAttempts(Get(FirstUnder(root, "commentsHeaderRenderer"), "countText", Null))
    \o TitleAttempts(Get(FirstUnder(root, "commentsHeaderRenderer"), "title", Null))
Strategy4(root) ==
  LET comment_count == NextOr(search_dict(root, "commentCount"), Null)
  IN IF IsNum(comment_count) THEN <<comment_count>>
     ELSE IF IsStr(comment_count) THEN <<_parse_comment_count[comment_count.s]>>
     ELSE <<>>
Strategy5(root) ==
  LET fields == search_dict(root, "text")
  IN Flat([i \in 1..Len(fields) |-> ScanAttempts(fields[i])])

Attempts(root) ==
  Strategy1(root) \o Strategy2(root) \o Strategy3(root) \o Strategy4(root)
    \o Strategy5(root)

\* The first of the attempts that gave a count; unknown when none did.
FirstCount(attempts) ==
  LET counts == SelectSeq(attempts, IsNum)
  IN IF counts = <<>> THEN Null ELSE counts[1]

\* C20: extract_total_count returns the count of the first strategy that succeeds, in
\* the order commentCountRenderer text, headerRenderer countText, commentsHeaderRenderer
\* countText then title, commentCount field (numeric or parsed), scan of the text
\* nodes; a parse failure falls through to the next attempt, and the result is unknown
\* only if every strategy fails.
C20_FirstStrategyThatSucceeds ==
  (IsDict(arg) /\ ret # Pending) => ret = FirstCount(Attempts(arg))

(***************************************************************************)
(* run_analysis.                                                           *)
(***************************************************************************)
\* The result holds one enriched comment per loaded comment, in input order, each
\* with a result for every task of the job.
ResultComplete ==
  /\ Len(analysis_result) = Len(job_comments)
  /\ \A i \in 1..Len(job_comments) :
       /\ analysis_result[i].id = job_comments[i]
       /\ DOMAIN analysis_result[i].results = SetOf(job_tasks)

\* C21: run_analysis returns one EnrichedComment per loaded comment, in input order,
\* each with a result for every task of the job, in a fresh run and in a run that
\* resumes from a checkpoint in which some (comment, task) pairs are completed.
C21_EveryCommentEveryTask ==
  run_pc = "done" => ResultComplete

\* The (task, comment) pairs for which a call of execute_task has returned.
Succeeded ==
  UNION {{<<executed[i].task, c>> : c \in SetOf(executed[i].batch)} :
           i \in {i \in 1..Len(executed) : executed[i].outcome = "ok"}}

\* The (task, comment) pairs that a completed map lists.
PairsOf(completed) ==
  UNION {{<<t, c>> : c \in SetOf(completed[t])} : t \in DOMAIN completed}

\* The step is a call of execute_task.
Calls == Len(executed') = Len(executed) + 1
LastCall == executed[Len(executed)]

InInputOrder(batch) ==
  \E f \in [1..Len(batch) -> 1..Len(job_comments)] :
    /\ \A i \in 1..Len(batch) : job_comments[f[i]] = batch[i]
    /\ \A i \in 1..(Len(batch) - 1) : f[i] < f[i + 1]

\* The pairs that were completed when the i-th call was made.
SucceededBefore(i) ==
  UNION {{<<executed[j].task, c>> : c \in SetOf(executed[j].batch)} :
           j \in {j \in 1..(i - 1) : executed[j].outcome = "ok"}}

\* C28: with a checkpoint, execute_task is called for a task only with comments that
\* are pending for it, in input order: no (comment, task) pair that is recorded as
\* completed is sent again, and a task with no pending comment causes no call.  The
\* history only grows, so it is enough to say it of the last call.
C28_ResumeNeverRepeats ==
  (checkpointing /\ executed # <<>>) =>
    /\ InInputOrder(LastCall.batch)
    /\ LastCall.batch # <<>>
    /\ \A c \in SetOf(LastCall.batch) :
         <<LastCall.task, c>> \notin SucceededBefore(Len(executed))

\* The resumed run calls execute_task for a task of which the checkpoint records a
\* part.
C28_Witness ==
  /\ checkpointing /\ executed # <<>> /\ LastCall.run = 2
  /\ \E j \in 1..(Len(executed) - 1) :
       /\ executed[j].run = 1 /\ executed[j].outcome = "ok"
       /\ executed[j].task = LastCall.task

(***************************************************************************)
(* run_batch.                                                              *)
(***************************************************************************)
\* The channels whose scrape raised an Exception.
FailedAt == {i \in 1..Len(scraped) : scraped[i].outcome = "Exception"}

\* A KeyboardInterrupt reached run_batch while it processed a channel.
Interrupted ==
  /\ scraped # <<>>
  /\ scraped[Len(scraped)].outcome \in {"KeyboardInterrupt", "KeyboardInterrupt in sleep"}

\* The channels that were recorded: all that were attempted, but one whose scrape
\* was interrupted.
RecordedCount ==
  IF scraped # <<>> /\ scraped[Len(scraped)].outcome = "KeyboardInterrupt"
  THEN Len(scraped) - 1 ELSE Len(scraped)

\* C22: the channels are attempted in file order, each once.  With fail_fast no
\* channel is scraped after the first one that failed; without it a run that is not
\* interrupted attempts every channel of the file, whatever failed before.  Every
\* channel that failed is recorded as one 'failed' entry, and the run ends by
\* writing and returning a report of the channels attempted.
C22_FailurePolicy ==
  batch_pc \notin {"parse", "raised"} =>
    /\ Len(scraped) <= Len(channels)
    /\ \A i \in 1..Len(scraped) : scraped[i].channel = channels[i]
    /\ fail_fast => \A i \in FailedAt : i = Len(scraped)
    /\ Len(stats_list) = RecordedCount
    /\ \A i \in 1..Len(stats_list) :
         /\ stats_list[i].channel = scraped[i].channel
         /\ stats_list[i].status = "failed" <=> i \in FailedAt
    /\ (batch_pc = "returned" /\ ~Interrupted) =>
         /\ IF fail_fast /\ FailedAt # {}
            THEN FailedAt = {Len(scraped)}
            ELSE Len(scraped) = Len(channels)
         /\ batch_ret = _create_batch_report(stats_list, channels)
         /\ report_file = batch_ret
         /\ batch_ret.channels_failed = Cardinality(FailedAt)
         /\ Len(batch_ret.stats) = Len(scraped)

\* A run without fail_fast has gone past a failure to the end of the file, and a run
\* with fail_fast has stopped at a failure before the end.
C22_Witness ==
  /\ batch_pc = "returned" /\ ~Interrupted
  /\ FailedAt # {}
  /\ \/ ~fail_fast /\ Len(scraped) = MaxChannels /\ 1 \in FailedAt
     \/ fail_fast /\ Len(scraped) < Len(channels)

\* C23: run_batch returns None exactly when a KeyboardInterrupt reached it while a
\* channel was processed; then no other channel is processed, and the partial
\* report is written exactly when a channel had been recorded.  Every other return
\* is a BatchReport.
C23_NoneIffInterrupted ==
  /\ [](batch_pc = "returned" => (batch_ret = Null <=> Interrupted))
  /\ []((batch_pc \notin {"parse", "raised"} /\ Interrupted) =>
          /\ batch_pc = "returned"
          /\ report_file # Null <=> stats_list # <<>>
          /\ report_file # Null => report_file = _create_batch_report(stats_list, channels))
  /\ [][(batch_pc \notin {"parse", "raised"} /\ Interrupted) => UNCHANGED scraped]_vars
  /\ []((batch_pc = "returned" /\ ~Interrupted) =>
          batch_ret = _create_batch_report(stats_list, channels))

\* The first channel was interrupted, nothing recorded and nothing written, with
\* channels left in the file.
C23_Witness ==
  /\ batch_pc = "returned" /\ Interrupted
  /\ Len(scraped) = 1 /\ Len(channels) > 1
  /\ scraped[1].outcome = "KeyboardInterrupt"
  /\ report_file = Null

(***************************************************************************)
(* The loop over the videos of a channel.                                  *)
(***************************************************************************)
\* C24: when Ctrl+C arrives while a video is exported and the user declines to
\* quit, the loop goes on with the next video: the interrupted video is not
\* started again, and every video of the channel is started at most once.
C24_InterruptedVideoNotRestarted ==
  \A i, j \in 1..Len(started) : i # j => started[i] # started[j]

(***************************************************************************)
(* Exit codes.                                                             *)
(***************************************************************************)
\* The exit code that the table of the classes gives.
ExitCodeFor(err) ==
  IF IsInstance(err, "YtceError") THEN ExitCodeOf(err.cls)
  ELSE IF \E c \in {"KeyboardInterrupt", "FileNotFoundError", "PermissionError"} :
            IsInstance(err, c)
    THEN EXIT_USER_ERROR
  ELSE IF IsInstance(err, "KeyError") \/ IsInstance(err, "AttributeError")
    THEN EXIT_NETWORK_ERROR
  ELSE EXIT_INTERNAL_ERROR

\* C25: handle_error returns for a YtceError the exit_code of its class (UserError
\* 1, NetworkError 2, InternalError 3), for a KeyboardInterrupt, a
\* FileNotFoundError and a PermissionError EXIT_USER_ERROR, for a KeyError and an
\* AttributeError EXIT_NETWORK_ERROR, and for every other exception
\* EXIT_INTERNAL_ERROR; it never returns EXIT_SUCCESS and never raises.
C25_ExitCodes ==
  ret # Pending =>
    /\ ret = Num(ExitCodeFor(arg.error))
    /\ ret # Num(EXIT_SUCCESS)
    /\ ~Raises(ret)

(***************************************************************************)
(* The limit wrapper of the export.                                        *)
(***************************************************************************)
\* How many records the limit lets through, of n comments.
Allowed(n) ==
  IF per_video_limit = Null THEN n
  ELSE IF per_video_limit.n < n THEN per_video_limit.n ELSE n

\* C29: for every limit, None or an integer >= 0, the records written for a video
\* are the first min(limit, n) comments that the generator yields, all n when the
\* limit is None, in its order; the marker is neither written nor counted, and no
\* comment is lost when the first item pulled is a comment.
C29_FirstCommentsWritten ==
  export_pc = "done" =>
    /\ written = [i \in 1..Allowed(Len(CommentsOf(source_items))) |->
                    RecordOf(CommentsOf(source_items)[i])]
    /\ wrote = Allowed(Len(CommentsOf(source_items)))

(***************************************************************************)
(* The retries of OpenAIAdapter.generate.                                  *)
(***************************************************************************)
\* The outcomes after which generate calls the API again.
Retryable(outcome) ==
  \/ outcome.kind \in {"RateLimitError", "APITimeoutError"}
  \/ /\ outcome.kind = "APIError"
     /\ IF outcome.status_code = Null THEN FALSE ELSE outcome.status_code.n >= 500

ModelErrors ==
  {Raise(x) : x \in {"ModelAPIError", "ModelRateLimitError",
                     "ModelAuthenticationError", "ModelTimeoutError"}}

GenerateEnded == generate_pc \in {"returned", "raised"}

\* C30: generate makes at most max_retries + 1 calls of the API and always ends, by
\* returning a response or by raising a Model*Error.  A call is followed by
\* another one only after a rate limit, a timeout or an API error with a status of
\* 500 or more; the sleep before retry k is retry_delay * 2^(k-1); an
\* authentication error or any other error is raised after that call.
C30_BoundedRetries ==
  /\ [](/\ Len(api_calls) <= max_retries + 1
        /\ \A i \in 1..(Len(api_calls) - 1) : Retryable(api_calls[i])
        /\ (~GenerateEnded /\ api_calls # <<>>) => Retryable(api_calls[Len(api_calls)])
        /\ Len(sleeps) = (IF GenerateEnded /\ api_calls # <<>>
                          THEN Len(api_calls) - 1 ELSE Len(api_calls))
        /\ \A k \in 1..Len(sleeps) : sleeps[k] = retry_delay * Pow2[k - 1]
        /\ GenerateEnded =>
             /\ IF generate_pc = "returned"
                THEN generate_ret = Ok("content")
                       /\ api_calls[Len(api_calls)].kind = "content"
                ELSE generate_ret \in ModelErrors
             /\ (api_calls # <<>>
                   /\ api_calls[Len(api_calls)].kind = "AuthenticationError") =>
                  generate_ret = Raise("ModelAuthenticationError"))
  /\ <>GenerateEnded

\* Two retries, after the sleeps of retry_delay and twice retry_delay, and then an
\* authentication error ends the call.
C30_Witness ==
  /\ generate_pc = "raised"
  /\ max_retries = 2
  /\ Len(api_calls) = 3
  /\ sleeps = <<retry_delay, 2 * retry_delay>>
  /\ api_calls[3].kind = "AuthenticationError"

====
